---- MODULE Spec2Model ----
(***************************************************************************)
(* Model of the LakeScope dashboard (srmcno/nextjs2):                      *)
(*   - the GET /api/usgs proxy route (src/app/api/usgs/route.ts),          *)
(*   - the fetching widgets USGSWaterData (both versions), WeatherWidget,  *)
(*     FishActivityIndex, WaterLevelChart and LakeMap,                     *)
(*   - the moon-phase functions getMoonData and getMoonPhase,              *)
(*   - calculateFloodImpact and the flood-level slider.                    *)
(* Each part has its own specification (SpecRoute, SpecWidgets, SpecMoon,  *)
(* SpecFlood); the parts share no state in the program.                    *)
(***************************************************************************)
EXTENDS Integers, Sequences, FiniteSets, TLC

VARIABLES
    \* ---- GET /api/usgs (one invocation of the handler) ----
    rPc,            \* "idle" | "primary" | "alt" | "done": the await the handler is at
    rSite,          \* siteId of the request (line 8)
    rPrimaryStatus, \* response.status of the primary fetch (0: none yet)
    rAltIdx,        \* index into altSites of the alternate being awaited
    rRequested,     \* the site ids fetched so far, in order
    rAnswered,      \* history: how each of these fetches ended, in order:
                    \* "ok" | "notOk" | "rejected"
    rResponse       \* the NextResponse returned, or NoResponse

VARIABLES
    \* ---- the moon-phase functions applied to one date ----
    mDate,          \* date.getTime() - newMoon.getTime(), in 1/100000 day
    mCalled,        \* which of the applications below have been made
    mData,          \* getMoonData(date)
    mDataNext,      \* getMoonData(date + one synodic month)
    mPhase,         \* getMoonPhase(date)
    mPhaseNext,     \* getMoonPhase(date + one synodic month)
    mSolunar        \* getSolunarPeriods(date, lat)

VARIABLES
    \* ---- LakeAnalysisPlatform: the flood simulation slider ----
    floodLevel,     \* useState(599), set by the range input
    floodImpact     \* calculateFloodImpact(floodLevel), recomputed on render

VARIABLES
    \* ---- BoatRampStatus ----
    currentElevation, \* the prop, in 1/10 ft
    rampStatuses      \* the useMemo value: getRampStatus of each of BOAT_RAMPS

VARIABLES
    \* ---- rateDayForRecreation applied to one day of the forecast ----
    day,            \* [tempHigh, precipProbability, windSpeed, weatherCode]
    dayScore,       \* the local `score` at the return
    dayRating       \* the rating returned

VARIABLES
    \* ---- the computation of calculateConditions on one response ----
    fInput,         \* [current, waterTemp, date]: weather.current, the prop
                    \* and new Date() - newMoon in 1/100000 day
    fConditions     \* the FishingConditions passed to setConditions

VARIABLES
    \* ---- GET /api/lake-boundary (one request) ----
    bPc,            \* "idle", "fetching" (awaiting Overpass) or "done"
    bName,          \* the `name` search parameter, "" when absent
    bElements,      \* data.elements of the Overpass answer
    bResponse       \* the NextResponse returned, NULL before

VARIABLES
    \* ---- mergeRings (one invocation) ----
    rings,          \* the argument: a sequence of rings, each a sequence of
                    \* [lon, lat] points in units of 0.00005 degree
    merged,         \* the chain built so far
    remaining,      \* the rings not merged yet, as indexes into `rings`
    mergePc,        \* "start" | "loop" | "done"
    mergeResult     \* the ring returned

VARIABLES
    \* ---- the fetching widgets.  One widget is looked at per behaviour ----
    \* (mounted); the widgets share no state, and `loading` and `error`
    \* are the states of these names of the mounted widget.
    mounted,        \* "usgs" | "usgsSim" | "weather" | "fish" | "chart" | "map"
    started,        \* how many times the widget's fetch function has been called
    inflight,       \* the calls awaiting their response (call numbers)
    done,           \* history: <<call number, outcome>> in order of completion
    overlapped,     \* history: a call was made while another was in flight
    writer,         \* history: the call that last set the widget's data state
    origin,         \* history: "none" | "live" | "fallback", how that data arose
    loading,
    error,
    waterData,      \* USGSWaterData
    weather,        \* WeatherWidget
    hourlyForecast, \* WeatherWidget
    conditions,     \* FishActivityIndex
    moonData,       \* FishActivityIndex
    waterTemp,      \* FishActivityIndex (prop)
    timeRange,      \* WaterLevelChart
    closureRange,   \* WaterLevelChart: the timeRange each call closed over
    series,         \* WaterLevelChart, history: the readings of the response
                    \* that data and stats were last computed from
    data,           \* WaterLevelChart
    stats,          \* WaterLevelChart
    lakePolygon,    \* LakeMap
    boundarySource  \* LakeMap

routeVars ==
    <<rPc, rSite, rPrimaryStatus, rAltIdx, rRequested, rAnswered, rResponse>>
moonVars == <<mDate, mCalled, mData, mDataNext, mPhase, mPhaseNext, mSolunar>>
floodVars == <<floodLevel, floodImpact>>
rampVars == <<currentElevation, rampStatuses>>
dayVars == <<day, dayScore, dayRating>>
fishCalcVars == <<fInput, fConditions>>
ringVars == <<rings, merged, remaining, mergePc, mergeResult>>
boundaryVars == <<bPc, bName, bElements, bResponse>>
calcVars == <<rampVars, dayVars, fishCalcVars, ringVars>>

fetchVars == <<mounted, started, inflight, done, overlapped, writer, origin>>
usgsVars == <<waterData>>
weatherVars == <<weather, hourlyForecast>>
fishVars == <<conditions, moonData, waterTemp>>
chartVars == <<timeRange, closureRange, series, data, stats>>
mapVars == <<lakePolygon, boundarySource>>
widgetVars == <<fetchVars, loading, error, usgsVars, weatherVars, fishVars,
                chartVars, mapVars>>

vars == <<routeVars, widgetVars, moonVars, floodVars, calcVars, boundaryVars>>

Range(s) == {s[i] : i \in DOMAIN s}

\* JavaScript null, for a state that holds an object
NULL == [null |-> TRUE]
\* JavaScript null, for a state that holds a string
NoError == ""

\* the % of JavaScript: the remainder takes the sign of the dividend
JsMod(a, b) == IF a >= 0 THEN a % b ELSE 0 - ((0 - a) % b)

\* Math.round(num / den) for den > 0: the nearest integer, halves upwards
Round(num, den) == (2 * num + den) \div (2 * den)

Min(a, b) == IF a < b THEN a ELSE b
Max(a, b) == IF a > b THEN a ELSE b

(***************************************************************************)
(* GET /api/usgs                                                           *)
(***************************************************************************)
DefaultSite == "07335700"
altSites == <<"07335790", "07335500", "07336200">>

\* values of the `site` query parameter ("" : parameter absent)
SiteParams == {"", "07335790", "07336200"}
\* non-OK statuses the USGS service answers with
FailStatuses == {404, 500, 503}

NoResponse == [status |-> 0, siteId |-> "", fallback |-> FALSE, message |-> ""]

Response200(site, fb) ==
    [status |-> 200, siteId |-> site, fallback |-> fb, message |-> ""]

\* the catch block: every thrown error becomes a 502 with error.message
Response502(msg) ==
    [status |-> 502, siteId |-> "", fallback |-> FALSE, message |-> msg]

RouteInit ==
    /\ rPc = "idle"
    /\ rSite = ""
    /\ rPrimaryStatus = 0
    /\ rAltIdx = 0
    /\ rRequested = <<>>
    /\ rAnswered = <<>>
    /\ rResponse = NoResponse

\* a request arrives: lines 7-26, up to the await of the primary fetch
RouteRequest ==
    /\ rPc \in {"idle", "done"}
    /\ \E p \in SiteParams :
         LET siteId == IF p = "" THEN DefaultSite ELSE p IN
         /\ rSite' = siteId
         /\ rRequested' = <<siteId>>
    /\ rPc' = "primary"
    /\ rAnswered' = <<>>
    /\ rPrimaryStatus' = 0
    /\ rAltIdx' = 0
    /\ rResponse' = NoResponse
    /\ UNCHANGED <<widgetVars, moonVars, floodVars, calcVars, boundaryVars>>

\* the primary fetch rejects (network error): straight to the catch block
PrimaryThrows ==
    /\ rAnswered' = Append(rAnswered, "rejected")
    /\ rPc = "primary"
    /\ rPc' = "done"
    /\ rResponse' = Response502("fetch failed")
    /\ UNCHANGED <<rSite, rPrimaryStatus, rAltIdx, rRequested>>
    /\ UNCHANGED <<widgetVars, moonVars, floodVars, calcVars, boundaryVars>>

\* the primary fetch resolves with response.ok: lines 61-71, or json() throws
PrimaryOk ==
    /\ rAnswered' = Append(rAnswered, "ok")
    /\ rPc = "primary"
    /\ rPc' = "done"
    /\ rPrimaryStatus' = 200
    /\ \E parses \in BOOLEAN :
         rResponse' = IF parses THEN Response200(rSite, FALSE)
                      ELSE Response502("invalid json")
    /\ UNCHANGED <<rSite, rAltIdx, rRequested>>
    /\ UNCHANGED <<widgetVars, moonVars, floodVars, calcVars, boundaryVars>>

\* the primary fetch resolves with !response.ok: lines 28-42, first alternate
PrimaryNotOk ==
    /\ rAnswered' = Append(rAnswered, "notOk")
    /\ rPc = "primary"
    /\ \E st \in FailStatuses : rPrimaryStatus' = st
    /\ rPc' = "alt"
    /\ rAltIdx' = 1
    /\ rRequested' = Append(rRequested, altSites[1])
    /\ UNCHANGED <<rSite, rResponse>>
    /\ UNCHANGED <<widgetVars, moonVars, floodVars, calcVars, boundaryVars>>

\* the alternate fetch rejects: the catch block
AltThrows ==
    /\ rAnswered' = Append(rAnswered, "rejected")
    /\ rPc = "alt"
    /\ rPc' = "done"
    /\ rResponse' = Response502("fetch failed")
    /\ UNCHANGED <<rSite, rPrimaryStatus, rAltIdx, rRequested>>
    /\ UNCHANGED <<widgetVars, moonVars, floodVars, calcVars, boundaryVars>>

\* AltOk answering as the primary site does, with fallback false
AltOk_NotFlagged ==
    /\ rAnswered' = Append(rAnswered, "ok")
    /\ rPc = "alt"
    /\ rPc' = "done"
    /\ \E parses \in BOOLEAN :
         rResponse' = IF parses THEN Response200(altSites[rAltIdx], FALSE)
                      ELSE Response502("invalid json")
    /\ UNCHANGED <<rSite, rPrimaryStatus, rAltIdx, rRequested>>
    /\ UNCHANGED <<widgetVars, moonVars, floodVars, calcVars, boundaryVars>>

\* the alternate answers OK: lines 44-55, or its json() throws
AltOk ==
    /\ rAnswered' = Append(rAnswered, "ok")
    /\ rPc = "alt"
    /\ rPc' = "done"
    /\ \E parses \in BOOLEAN :
         rResponse' = IF parses THEN Response200(altSites[rAltIdx], TRUE)
                      ELSE Response502("invalid json")
    /\ UNCHANGED <<rSite, rPrimaryStatus, rAltIdx, rRequested>>
    /\ UNCHANGED <<widgetVars, moonVars, floodVars, calcVars, boundaryVars>>

\* the alternate answers non-OK: next alternate, or line 58 after the last
AltNotOk ==
    /\ rAnswered' = Append(rAnswered, "notOk")
    /\ rPc = "alt"
    /\ IF rAltIdx < Len(altSites)
         THEN /\ rAltIdx' = rAltIdx + 1
              /\ rRequested' = Append(rRequested, altSites[rAltIdx + 1])
              /\ UNCHANGED <<rPc, rResponse>>
         ELSE /\ rPc' = "done"
              /\ rResponse' = Response502("USGS API returned status")
              /\ UNCHANGED <<rAltIdx, rRequested>>
    /\ UNCHANGED <<rSite, rPrimaryStatus>>
    /\ UNCHANGED <<widgetVars, moonVars, floodVars, calcVars, boundaryVars>>

NextRoute ==
    \/ RouteRequest
    \/ PrimaryThrows
    \/ PrimaryOk
    \/ PrimaryNotOk
    \/ AltThrows
    \/ AltOk
    \/ AltNotOk

(***************************************************************************)
(* Moon phase: getMoonData (RecreationPlanner) and getMoonPhase            *)
(* (FishActivityIndex).  Time is counted in 1/100000 day from the          *)
(* reference new moon new Date(2000, 0, 6, 18, 14, 0); the synodic month   *)
(* 29.53058867 days is 2953059 of these units (rounded to the unit), and   *)
(* the arithmetic is exact where the code's is floating point.  The icon   *)
(* of the result is a function of the phase name and is left out.          *)
(***************************************************************************)
SynodicMonth == 2953059

\* line 730: ((days % 29.53058867) + 29.53058867) % 29.53058867
MoonDataLunarDay(diff) ==
    JsMod(JsMod(diff, SynodicMonth) + SynodicMonth, SynodicMonth)

\* Interpolated scaled to the whole disc instead of a quarter of it
Interpolated_Percent(lunarDay, from, width) ==
    Round((lunarDay - from) * 100, width)

\* lines 743, 751, 759, 767: Math.round((lunarDay - from) / width * 25)
Interpolated(lunarDay, from, width) == Round((lunarDay - from) * 25, width)

getMoonData(diff) ==
    LET lunarDay == MoonDataLunarDay(diff) IN
    IF lunarDay < 185000 THEN
        [phase |-> "New Moon", illumination |-> 0]
    ELSE IF lunarDay < 553000 THEN
        [phase |-> "Waxing Crescent",
         illumination |-> Interpolated(lunarDay, 185000, 368000)]
    ELSE IF lunarDay < 922000 THEN
        [phase |-> "First Quarter", illumination |-> 50]
    ELSE IF lunarDay < 1291000 THEN
        [phase |-> "Waxing Gibbous",
         illumination |-> 50 + Interpolated(lunarDay, 922000, 369000)]
    ELSE IF lunarDay < 1661000 THEN
        [phase |-> "Full Moon", illumination |-> 100]
    ELSE IF lunarDay < 2030000 THEN
        [phase |-> "Waning Gibbous",
         illumination |-> 100 - Interpolated(lunarDay, 1661000, 369000)]
    ELSE IF lunarDay < 2399000 THEN
        [phase |-> "Last Quarter", illumination |-> 50]
    ELSE IF lunarDay < 2768000 THEN
        [phase |-> "Waning Crescent",
         illumination |-> 50 - Interpolated(lunarDay, 2399000, 369000)]
    ELSE
        [phase |-> "New Moon", illumination |-> 0]

\* lines 638-640: lunations = days / 29.53058867;
\* lunarDay = (lunations % 1) * 29.53058867, the remainder keeping the sign
MoonPhaseLunarDay(diff) == JsMod(diff, SynodicMonth)

getMoonPhase(diff) ==
    LET lunarDay == MoonPhaseLunarDay(diff) IN
    IF lunarDay < 185000 THEN
        [phase |-> "New Moon", illumination |-> 0]
    ELSE IF lunarDay < 553000 THEN
        [phase |-> "Waxing Crescent", illumination |-> 25]
    ELSE IF lunarDay < 922000 THEN
        [phase |-> "First Quarter", illumination |-> 50]
    ELSE IF lunarDay < 1291000 THEN
        [phase |-> "Waxing Gibbous", illumination |-> 75]
    ELSE IF lunarDay < 1661000 THEN
        [phase |-> "Full Moon", illumination |-> 100]
    ELSE IF lunarDay < 2030000 THEN
        [phase |-> "Waning Gibbous", illumination |-> 75]
    ELSE IF lunarDay < 2399000 THEN
        [phase |-> "Last Quarter", illumination |-> 50]
    ELSE IF lunarDay < 2768000 THEN
        [phase |-> "Waning Crescent", illumination |-> 25]
    ELSE
        [phase |-> "New Moon", illumination |-> 0]

\* the dates tried: MoonPeriods synodic months before and after the
\* reference new moon, each at the band edges and inside every band
MoonPeriods == 2
MoonOffsets ==
    {0, 1, 92500, 184999, 185000, 369000, 552999, 553000, 737500, 921999,
     922000, 1106500, 1290999, 1291000, 1476000, 1660999, 1661000, 1845500,
     2029999, 2030000, 2214500, 2398999, 2399000, 2583500, 2767999, 2768000,
     2860000, 2953058}
MoonDates ==
    {k * SynodicMonth + o : k \in (0 - MoonPeriods)..(MoonPeriods - 1),
                            o \in MoonOffsets}

NoMoon == [phase |-> "", illumination |-> 0]
NoSolunar == [major |-> <<>>, minor |-> <<>>]

MoonOff ==
    /\ mDate = 0
    /\ mCalled = {}
    /\ mData = NoMoon
    /\ mDataNext = NoMoon
    /\ mPhase = NoMoon
    /\ mPhaseNext = NoMoon
    /\ mSolunar = NoSolunar

(***************************************************************************)
(* calculateFloodImpact and the flood simulation slider                    *)
(***************************************************************************)
normalPoolElevation == 599
SliderMin == 530
SliderMax == 631

\* calculateFloodImpact without the floor at the normal pool
calculateFloodImpact_NoFloor(elevation) ==
    LET difference == elevation - normalPoolElevation
    IN [additionalAcres |-> Round(difference * 180, 1),
        impactedStructures |->
            IF difference > 5 THEN Round((difference - 5) * 12, 1) ELSE 0,
        evacuationZone |->
            IF difference > 8 THEN Round(difference - 8, 2) ELSE 0,
        difference |-> difference]

\* calculateFloodImpact with one threshold, 8 ft, for structures and evacuation
calculateFloodImpact_OneThreshold(elevation) ==
    LET difference == elevation - normalPoolElevation
    IN [additionalAcres |->
            IF difference > 0 THEN Round(difference * 180, 1) ELSE 0,
        impactedStructures |->
            IF difference > 8 THEN Round((difference - 5) * 12, 1) ELSE 0,
        evacuationZone |->
            IF difference > 8 THEN Round(difference - 8, 2) ELSE 0,
        difference |-> difference]

\* calculateFloodImpact rounding the evacuation zone down at the half
calculateFloodImpact_HalfDown(elevation) ==
    LET difference == elevation - normalPoolElevation
    IN [additionalAcres |->
            IF difference > 0 THEN Round(difference * 180, 1) ELSE 0,
        impactedStructures |->
            IF difference > 5 THEN Round((difference - 5) * 12, 1) ELSE 0,
        evacuationZone |->
            IF difference > 8 THEN (difference - 8) \div 2 ELSE 0,
        difference |-> difference]

calculateFloodImpact(elevation) ==
    LET normalPool == normalPoolElevation
        difference == elevation - normalPool
    IN [additionalAcres |->
            IF difference > 0 THEN Round(difference * 180, 1) ELSE 0,
        impactedStructures |->
            IF difference > 5 THEN Round((difference - 5) * 12, 1) ELSE 0,
        \* (difference - 8) * 0.5
        evacuationZone |->
            IF difference > 8 THEN Round(difference - 8, 2) ELSE 0,
        difference |-> difference]

\* useState(599), and the first render
FloodInit ==
    /\ floodLevel = 599
    /\ floodImpact = calculateFloodImpact(599)

(***************************************************************************)
(* The fetching widgets.  A fetch function runs to its first await when    *)
(* it is called (on mount, on a timer tick, on a click on refresh/retry)   *)
(* and runs its remainder when the response arrives; calls overlap freely. *)
(* Water levels are in 1/100 ft.                                           *)
(***************************************************************************)
MaxFetches == 2

\* a call of the widget's fetch function reaches its await
Call ==
    /\ started < MaxFetches
    /\ started' = started + 1
    /\ inflight' = inflight \cup {started + 1}
    /\ overlapped' = (overlapped \/ inflight # {})
    /\ UNCHANGED <<mounted, done, writer, origin>>

\* the response of call id arrives and the rest of the function runs
Settle(id, kind) ==
    /\ inflight' = inflight \ {id}
    /\ done' = Append(done, <<id, kind>>)
    /\ UNCHANGED <<mounted, started, overlapped>>

(******************************* USGSWaterData ****************************)
Levels == {58800, 59842, 60500}
\* json.value.timeSeries[0].values[0].value of a response that has readings
UsgsSeries == {<<a>> : a \in Levels} \cup {<<a, b>> : a, b \in Levels}

\* lines 51-66 (and 297-312): the record set from a non-empty series
LiveWaterData(values) ==
    LET currentLevel == values[Len(values)]
        previousLevel == IF Len(values) > 1 THEN values[1] ELSE currentLevel
        change == currentLevel - previousLevel
    IN [value |-> currentLevel,
        status |-> IF currentLevel > normalPoolElevation * 100 + 500
                     THEN "elevated"
                   ELSE IF currentLevel < normalPoolElevation * 100 - 1000
                     THEN "low"
                   ELSE "normal",
        trend |-> IF change > 10 THEN "rising"
                  ELSE IF change < 0 - 10 THEN "falling"
                  ELSE "stable",
        change24h |-> change]

\* how a fetch of the proxy-backed widget fails: !response.ok; fetch rejects;
\* json() throws; data.error; the optional chain finds no series; the series
\* is empty (latestValue is undefined and latestValue.value throws)
UsgsFailures ==
    {"httpError", "networkError", "parseError", "errorBody", "noSeries",
     "emptySeries"}

\* err.message of the error caught at line 74
UsgsErrorMessage(kind) ==
    CASE kind = "httpError" -> "API returned 502"
      [] kind = "networkError" -> "Failed to fetch"
      [] kind = "parseError" -> "Unexpected token in JSON"
      [] kind = "errorBody" -> "USGS data unavailable"
      [] kind = "noSeries" -> "No data available from USGS"
      [] kind = "emptySeries" -> "Cannot read properties of undefined"

\* lines 30-36
fetchWaterData ==
    /\ mounted = "usgs"
    /\ Call
    /\ loading' = TRUE
    /\ error' = NoError
    /\ UNCHANGED <<usgsVars, weatherVars, fishVars, chartVars, mapVars>>
    /\ UNCHANGED <<routeVars, moonVars, floodVars, calcVars, boundaryVars>>

\* lines 59-69
UsgsSucceeds(id, values) ==
    /\ Settle(id, "ok")
    /\ waterData' = LiveWaterData(values)
    /\ writer' = id
    /\ origin' = "live"
    /\ loading' = FALSE
    /\ UNCHANGED error

\* UsgsFails without line 79: the data of an earlier fetch is kept
UsgsFails_KeepsData(id, kind) ==
    /\ Settle(id, kind)
    /\ error' = UsgsErrorMessage(kind)
    /\ loading' = FALSE
    /\ UNCHANGED <<waterData, writer, origin>>

\* lines 74-82
UsgsFails(id, kind) ==
    /\ Settle(id, kind)
    /\ error' = UsgsErrorMessage(kind)
    /\ waterData' = NULL
    /\ writer' = id
    /\ origin' = "none"
    /\ loading' = FALSE

\* lines 38-82
fetchWaterDataSettled ==
    /\ mounted = "usgs"
    /\ \E id \in inflight :
         \/ \E values \in UsgsSeries : UsgsSucceeds(id, values)
         \/ \E kind \in UsgsFailures : UsgsFails(id, kind)
    /\ UNCHANGED <<weatherVars, fishVars, chartVars, mapVars>>
    /\ UNCHANGED <<routeVars, moonVars, floodVars, calcVars, boundaryVars>>

(********************* USGSWaterData, simulated fallback ******************)
\* how a direct fetch fails: !response.ok, fetch rejects (CORS), json()
\* throws, no series, empty series; all end in the catch block of line 322
UsgsSimFailures ==
    {"httpError", "networkError", "parseError", "noSeries", "emptySeries"}

\* 598.42 + (Math.random() * 0.5 - 0.25), and Math.random() * 0.4 - 0.2
SimulatedLevels == {59817, 59842, 59866}
SimulatedChanges == {0 - 20, 0, 19}

\* lines 328-335
SimulatedWaterData(simulatedLevel, change) ==
    [value |-> simulatedLevel,
     status |-> IF simulatedLevel > normalPoolElevation * 100 THEN "elevated"
                ELSE IF simulatedLevel < normalPoolElevation * 100 - 500
                  THEN "low"
                ELSE "normal",
     trend |-> IF change > 5 THEN "rising"
               ELSE IF change < 0 - 5 THEN "falling"
               ELSE "stable",
     change24h |-> change]

\* lines 273-290
fetchWaterDataSim ==
    /\ mounted = "usgsSim"
    /\ Call
    /\ loading' = TRUE
    /\ error' = NoError
    /\ UNCHANGED <<usgsVars, weatherVars, fishVars, chartVars, mapVars>>
    /\ UNCHANGED <<routeVars, moonVars, floodVars, calcVars, boundaryVars>>

\* lines 292-340
fetchWaterDataSimSettled ==
    /\ mounted = "usgsSim"
    /\ \E id \in inflight :
         \/ \E values \in UsgsSeries :
              /\ Settle(id, "ok")
              /\ waterData' = LiveWaterData(values)
              /\ origin' = "live"
              /\ writer' = id
         \/ \E kind \in UsgsSimFailures :
            \E lv \in SimulatedLevels, ch \in SimulatedChanges :
              /\ Settle(id, kind)
              /\ waterData' = SimulatedWaterData(lv, ch)
              /\ origin' = "fallback"
              /\ writer' = id
    /\ loading' = FALSE
    /\ UNCHANGED <<error, weatherVars, fishVars, chartVars, mapVars>>
    /\ UNCHANGED <<routeVars, moonVars, floodVars, calcVars, boundaryVars>>

(******************************* WeatherWidget ****************************)
\* a number the body does not carry: undefined, or the NaN it turns into;
\* every comparison with it is false
NaN == 0 - 1000000
IsNum(x) == x # NaN

\* data.current of the responses that carry one: temperature_2m (F) and
\* pressure_msl (hPa); {} carries neither
WeatherCurrents ==
    {[temperature_2m |-> 72, pressure_msl |-> 1018],
     [temperature_2m |-> 41, pressure_msl |-> 1005],
     [temperature_2m |-> NaN, pressure_msl |-> NaN]}

CurrentHours == 0..23

\* lines 104-120: the fields read off data.current; pressure in 1/100000 inHg
WeatherData(current) ==
    [temperature |-> current.temperature_2m,
     pressure |-> IF IsNum(current.pressure_msl)
                    THEN current.pressure_msl * 2953 ELSE NaN]

\* lines 123-132: the indexes i of data.hourly pushed by the loop
HourlyData(currentHour) ==
    [k \in 1..(Min(currentHour + 12, 24) - currentHour) |-> currentHour + k - 1]

\* how a fetch fails before setWeather runs: !response.ok; fetch rejects;
\* json() throws; the body has no `current` (or no `daily`) block
WeatherFailures == {"httpError", "networkError", "parseError", "noCurrent"}

\* err.message of the error caught at line 136
WeatherErrorMessage(kind) ==
    CASE kind = "httpError" -> "Weather data unavailable"
      [] kind = "networkError" -> "Failed to fetch"
      [] kind = "parseError" -> "Unexpected token in JSON"
      [] kind = "noCurrent" -> "Cannot read properties of undefined"
      [] kind = "noHourly" -> "Cannot read properties of undefined"

\* lines 83-96
fetchWeather ==
    /\ mounted = "weather"
    /\ Call
    /\ loading' = TRUE
    /\ error' = NoError
    /\ UNCHANGED <<usgsVars, weatherVars, fishVars, chartVars, mapVars>>
    /\ UNCHANGED <<routeVars, moonVars, floodVars, calcVars, boundaryVars>>

\* lines 102-135, the body complete
WeatherSucceeds(id, current, currentHour) ==
    /\ Settle(id, IF IsNum(current.temperature_2m) THEN "ok" ELSE "emptyCurrent")
    /\ weather' = WeatherData(current)
    /\ hourlyForecast' = HourlyData(currentHour)
    /\ writer' = id
    /\ origin' = "live"
    /\ UNCHANGED error

\* lines 102-120 and 136-137: setWeather has run when data.hourly.time[i]
\* throws on a body without an `hourly` block
WeatherNoHourly(id, current) ==
    /\ Settle(id, "noHourly")
    /\ weather' = WeatherData(current)
    /\ writer' = id
    /\ origin' = "live"
    /\ error' = WeatherErrorMessage("noHourly")
    /\ UNCHANGED hourlyForecast

\* WeatherFails clearing the data, as the catch block of USGSWaterData does
WeatherFails_ClearsData(id, kind) ==
    /\ Settle(id, kind)
    /\ error' = WeatherErrorMessage(kind)
    /\ weather' = NULL
    /\ writer' = id
    /\ origin' = "none"
    /\ UNCHANGED hourlyForecast

\* lines 98-102 and 136-137
WeatherFails(id, kind) ==
    /\ Settle(id, kind)
    /\ error' = WeatherErrorMessage(kind)
    /\ UNCHANGED <<weather, hourlyForecast, writer, origin>>

\* lines 98-140
fetchWeatherSettled ==
    /\ mounted = "weather"
    /\ \E id \in inflight :
         \/ \E current \in WeatherCurrents, h \in CurrentHours :
              WeatherSucceeds(id, current, h)
         \/ \E current \in WeatherCurrents : WeatherNoHourly(id, current)
         \/ \E kind \in WeatherFailures : WeatherFails(id, kind)
    /\ loading' = FALSE
    /\ UNCHANGED <<usgsVars, fishVars, chartVars, mapVars>>
    /\ UNCHANGED <<routeVars, moonVars, floodVars, calcVars, boundaryVars>>

(****************************** WaterLevelChart ***************************)
TimeRanges == {"7d", "30d", "90d", "1y"}

\* line 102
Days(tr) ==
    IF tr = "7d" THEN 7 ELSE IF tr = "30d" THEN 30
    ELSE IF tr = "90d" THEN 90 ELSE 365

Constant(n, v) == [i \in 1..n |-> v]

\* the series of a response that has readings (n >= 1)
ChartSeries ==
    {<<59842>>, <<58800, 60500>>, <<60500, 59842, 58800>>,
     Constant(8, 59850), Constant(31, 59800),
     [i \in 1..200 |-> IF i < 200 THEN 59842 ELSE 60500]}

\* reduce((a, b) => a + b, 0)
RECURSIVE SumFromTo(_, _, _)
SumFromTo(s, lo, hi) ==
    IF lo > hi THEN 0
    ELSE IF lo = hi THEN s[lo]
    ELSE LET mid == (lo + hi) \div 2
         IN SumFromTo(s, lo, mid) + SumFromTo(s, mid + 1, hi)
SeqSum(s) == SumFromTo(s, 1, Len(s))
SeqMin(s) == CHOOSE x \in Range(s) : \A y \in Range(s) : x <= y
SeqMax(s) == CHOOSE x \in Range(s) : \A y \in Range(s) : x >= y

\* lines 66-72: every sampleRate-th reading, from the first
Sampled(values) ==
    LET sampleRate == Max(1, Len(values) \div 100)
        kept == (Len(values) + sampleRate - 1) \div sampleRate
    IN [k \in 1..kept |-> values[(k - 1) * sampleRate + 1]]

\* lines 77-90 and 123-130; avg to the 1/100 ft
Stats(numericValues) ==
    [min |-> SeqMin(numericValues),
     max |-> SeqMax(numericValues),
     avg |-> SeqSum(numericValues) \div Len(numericValues),
     current |-> numericValues[Len(numericValues)],
     change |-> numericValues[Len(numericValues)] - numericValues[1]]

\* lines 102-119: days + 1 values of 598.5 + seasonal variation + noise;
\* of the random outcomes, those level up to the latest point
SimulatedChartLevels == {59800, 59850}
SimulatedSeries(days) ==
    {[i \in 1..(days + 1) |-> IF i <= days THEN a ELSE b] :
        a, b \in SimulatedChartLevels}

ChartFailures == {"httpError", "networkError", "parseError", "noSeries"}

\* lines 44-57, with the timeRange of the closure that is called
fetchHistoricalData ==
    /\ mounted = "chart"
    /\ Call
    /\ closureRange' = Append(closureRange, timeRange)
    /\ loading' = TRUE
    /\ error' = NoError
    /\ UNCHANGED <<timeRange, series, data, stats>>
    /\ UNCHANGED <<usgsVars, weatherVars, fishVars, mapVars>>
    /\ UNCHANGED <<routeVars, moonVars, floodVars, calcVars, boundaryVars>>

\* lines 59-133; the catch block reads the timeRange of its closure
fetchHistoricalDataSettled ==
    /\ mounted = "chart"
    /\ \E id \in inflight :
         \/ \E values \in ChartSeries :
              /\ Settle(id, "ok")
              /\ series' = values
              /\ data' = Sampled(values)
              /\ stats' = Stats(Sampled(values))
              /\ origin' = "live"
              /\ writer' = id
         \/ \E kind \in ChartFailures :
            \E simulatedData \in SimulatedSeries(Days(closureRange[id])) :
              /\ Settle(id, kind)
              /\ series' = <<>>
              /\ data' = simulatedData
              /\ stats' = Stats(simulatedData)
              /\ origin' = "fallback"
              /\ writer' = id
    /\ loading' = FALSE
    /\ UNCHANGED <<error, timeRange, closureRange>>
    /\ UNCHANGED <<usgsVars, weatherVars, fishVars, mapVars>>
    /\ UNCHANGED <<routeVars, moonVars, floodVars, calcVars, boundaryVars>>

\* lines 312-315 and 136-138: a range is chosen; the effect calls the new
\* fetchHistoricalData
setTimeRange ==
    /\ mounted = "chart"
    /\ \E tr \in TimeRanges \ {timeRange} :
         /\ timeRange' = tr
         /\ closureRange' = Append(closureRange, tr)
    /\ Call
    /\ loading' = TRUE
    /\ error' = NoError
    /\ UNCHANGED <<series, data, stats>>
    /\ UNCHANGED <<usgsVars, weatherVars, fishVars, mapVars>>
    /\ UNCHANGED <<routeVars, moonVars, floodVars, calcVars, boundaryVars>>

(********************************** LakeMap *******************************)
\* polygons, by name: the constant of the component, the approximate
\* polygon of /api/lake-boundary, and polygons built from OSM data
FALLBACK_LAKE_POLYGON == "FALLBACK_LAKE_POLYGON"
ApproximatePolygon == "approximate polygon of /api/lake-boundary"
OsmPolygons == {"OSM ring A", "OSM ring B"}

\* part_002 lines 137-152: nothing is set before the await
fetchBoundary ==
    /\ mounted = "map"
    /\ started = 0
    /\ Call
    /\ UNCHANGED <<loading, error>>
    /\ UNCHANGED <<usgsVars, weatherVars, fishVars, chartVars, mapVars>>
    /\ UNCHANGED <<routeVars, moonVars, floodVars, calcVars, boundaryVars>>

fetchBoundarySettled ==
    /\ mounted = "map"
    /\ \E id \in inflight :
         \* a feature with a ring, meta.source 'OpenStreetMap'
         \/ \E ring \in OsmPolygons :
              /\ Settle(id, "osm")
              /\ lakePolygon' = ring
              /\ boundarySource' = "osm"
              /\ origin' = "live"
              /\ writer' = id
         \* the approximate feature, meta.source 'fallback'
         \/ /\ Settle(id, "approximate")
            /\ lakePolygon' = ApproximatePolygon
            /\ boundarySource' = "fallback"
            /\ origin' = "fallback"
            /\ writer' = id
         \* no feature with a ring; !response.ok; fetch or json() throws
         \/ \E kind \in {"noFeatures", "httpError", "networkError",
                         "parseError"} :
              /\ Settle(id, kind)
              /\ boundarySource' = "fallback"
              /\ origin' = "fallback"
              /\ UNCHANGED <<lakePolygon, writer>>
    /\ UNCHANGED <<loading, error>>
    /\ UNCHANGED <<usgsVars, weatherVars, fishVars, chartVars>>
    /\ UNCHANGED <<routeVars, moonVars, floodVars, calcVars, boundaryVars>>

(***************************** FishActivityIndex **************************)
\* comparisons of JavaScript: false when an operand is NaN or undefined
Lt(x, y) == IsNum(x) /\ x < y
Le(x, y) == IsNum(x) /\ x <= y
Gt(x, y) == IsNum(x) /\ x > y
Ge(x, y) == IsNum(x) /\ x >= y

\* part_003 lines 696-711.  An hour label is <<number, "am" | "pm">>
HourLabel(h) ==
    IF h > 12 THEN <<h - 12, "pm">>
    ELSE IF h = 0 THEN <<12, "am">>
    ELSE <<h, "am">>

formatPeriod(start) ==
    LET end == (start + 2) % 24 IN <<HourLabel(start), HourLabel(end)>>

getSolunarPeriods(diff) ==
    LET moonPhase == getMoonPhase(diff)
        majorStart1 == (6 + (moonPhase.illumination \div 10)) % 24
        majorStart2 == (majorStart1 + 12) % 24
        minorStart1 == (majorStart1 + 6) % 24
        minorStart2 == (minorStart1 + 12) % 24
    IN [major |-> <<formatPeriod(majorStart1), formatPeriod(majorStart2)>>,
        minor |-> <<formatPeriod(minorStart1), formatPeriod(minorStart2)>>]

\* lines 743-768; pressure in 1/100000 inHg (pressure_msl * 0.02953)
PressureFactor(pressure) ==
    IF Ge(pressure, 3000000) /\ Le(pressure, 3020000) THEN
        [name |-> "Barometric Pressure", score |-> 90, status |-> "positive"]
    ELSE IF Ge(pressure, 2980000) /\ Lt(pressure, 3000000) THEN
        [name |-> "Barometric Pressure", score |-> 75, status |-> "positive"]
    ELSE IF Gt(pressure, 3020000) /\ Le(pressure, 3050000) THEN
        [name |-> "Barometric Pressure", score |-> 60, status |-> "neutral"]
    ELSE IF Lt(pressure, 2980000) THEN
        [name |-> "Barometric Pressure", score |-> 40, status |-> "negative"]
    ELSE
        [name |-> "Barometric Pressure", score |-> 50, status |-> "neutral"]

\* lines 778-802
TemperatureFactor(temp) ==
    IF Ge(temp, 65) /\ Le(temp, 75) THEN
        [name |-> "Water Temperature", score |-> 95, status |-> "positive"]
    ELSE IF Ge(temp, 55) /\ Lt(temp, 65) THEN
        [name |-> "Water Temperature", score |-> 70, status |-> "neutral"]
    ELSE IF Gt(temp, 75) /\ Le(temp, 85) THEN
        [name |-> "Water Temperature", score |-> 65, status |-> "neutral"]
    ELSE IF Lt(temp, 55) THEN
        [name |-> "Water Temperature", score |-> 40, status |-> "negative"]
    ELSE
        [name |-> "Water Temperature", score |-> 35, status |-> "negative"]

\* lines 812-833
WindFactor(wind) ==
    IF Ge(wind, 5) /\ Le(wind, 15) THEN
        [name |-> "Wind", score |-> 85, status |-> "positive"]
    ELSE IF Lt(wind, 5) THEN
        [name |-> "Wind", score |-> 60, status |-> "neutral"]
    ELSE IF Gt(wind, 15) /\ Le(wind, 25) THEN
        [name |-> "Wind", score |-> 55, status |-> "neutral"]
    ELSE
        [name |-> "Wind", score |-> 30, status |-> "negative"]

\* lines 843-855
MoonFactor(phase) ==
    IF phase = "New Moon" \/ phase = "Full Moon" THEN
        [name |-> "Moon Phase", score |-> 90, status |-> "positive"]
    ELSE IF phase = "First Quarter" \/ phase = "Last Quarter" THEN
        [name |-> "Moon Phase", score |-> 70, status |-> "neutral"]
    ELSE
        [name |-> "Moon Phase", score |-> 55, status |-> "neutral"]

\* lines 865-878
CloudFactor(clouds) ==
    IF Ge(clouds, 40) /\ Le(clouds, 70) THEN
        [name |-> "Cloud Cover", score |-> 85, status |-> "positive"]
    ELSE IF Gt(clouds, 70) THEN
        [name |-> "Cloud Cover", score |-> 70, status |-> "neutral"]
    ELSE
        [name |-> "Cloud Cover", score |-> 55, status |-> "neutral"]

\* Rating with the Good band starting at 60
Rating_GoodFromSixty(overallScore) ==
    IF overallScore >= 80 THEN "Excellent"
    ELSE IF overallScore >= 60 THEN "Good"
    ELSE IF overallScore >= 50 THEN "Fair"
    ELSE "Poor"

\* lines 894-897
Rating(overallScore) ==
    IF overallScore >= 80 THEN "Excellent"
    ELSE IF overallScore >= 65 THEN "Good"
    ELSE IF overallScore >= 50 THEN "Fair"
    ELSE "Poor"

\* lines 900-921
TargetSpecies(temp, clouds, overallScore) ==
    <<[name |-> "Largemouth Bass",
       activity |-> IF Ge(temp, 60) /\ Le(temp, 80) /\ overallScore >= 60
                      THEN "High"
                    ELSE IF Ge(temp, 50) /\ Le(temp, 85) THEN "Moderate"
                    ELSE "Low"],
      [name |-> "Crappie",
       activity |-> IF Ge(temp, 55) /\ Le(temp, 70) THEN "High"
                    ELSE IF Ge(temp, 45) /\ Le(temp, 75) THEN "Moderate"
                    ELSE "Low"],
      [name |-> "Catfish",
       activity |-> IF Ge(temp, 70) /\ Ge(clouds, 50) THEN "High"
                    ELSE IF Ge(temp, 60) THEN "Moderate"
                    ELSE "Low"],
      [name |-> "Bluegill",
       activity |-> IF Ge(temp, 65) /\ Le(temp, 80) THEN "High"
                    ELSE IF Ge(temp, 55) THEN "Moderate"
                    ELSE "Low"]>>

\* Tips keeping only the first tip pushed
Tips_FirstOnly(wind, temp, pressure, phase, clouds) ==
    IF Ge(wind, 5) /\ Le(wind, 15)
      THEN <<"Fish the windward shoreline where baitfish concentrate">>
    ELSE IF Ge(temp, 65) /\ Le(temp, 75)
      THEN <<"Topwater lures effective in early morning">>
    ELSE IF Ge(pressure, 2980000) /\ Le(pressure, 3000000)
      THEN <<"Falling pressure - fish feeding aggressively">>
    ELSE IF phase = "Full Moon" \/ phase = "New Moon"
      THEN <<"Major solunar period - extended feeding windows">>
    ELSE IF Ge(clouds, 50)
      THEN <<"Overcast conditions favor shallow water fishing">>
    ELSE <<"Fish structure and cover in deeper water">>

\* lines 924-942
Tips(wind, temp, pressure, phase, clouds) ==
    LET pushed ==
          (IF Ge(wind, 5) /\ Le(wind, 15)
             THEN <<"Fish the windward shoreline where baitfish concentrate">>
             ELSE <<>>)
          \o (IF Ge(temp, 65) /\ Le(temp, 75)
                THEN <<"Topwater lures effective in early morning">>
                ELSE <<>>)
          \o (IF Ge(pressure, 2980000) /\ Le(pressure, 3000000)
                THEN <<"Falling pressure - fish feeding aggressively">>
                ELSE <<>>)
          \o (IF phase = "Full Moon" \/ phase = "New Moon"
                THEN <<"Major solunar period - extended feeding windows">>
                ELSE <<>>)
          \o (IF Ge(clouds, 50)
                THEN <<"Overcast conditions favor shallow water fishing">>
                ELSE <<>>)
    IN IF Len(pushed) = 0
         THEN <<"Fish structure and cover in deeper water">>
         ELSE pushed

\* lines 734-951: the conditions computed from data.current, the waterTemp
\* prop and the date of the call
ComputedConditions(current, temp, diff) ==
    LET moonPhase == getMoonPhase(diff)
        solunar == getSolunarPeriods(diff)
        pressure == IF IsNum(current.pressure_msl)
                      THEN current.pressure_msl * 2953 ELSE NaN
        wind == current.wind_speed_10m
        clouds == current.cloud_cover
        factors == <<PressureFactor(pressure), TemperatureFactor(temp),
                     WindFactor(wind), MoonFactor(moonPhase.phase),
                     CloudFactor(clouds)>>
        overallScore ==
            Round(SeqSum([i \in 1..Len(factors) |-> factors[i].score]),
                  Len(factors))
    IN [overallScore |-> overallScore,
        rating |-> Rating(overallScore),
        factors |-> factors,
        bestTime |-> solunar.major[1],
        targetSpecies |-> TargetSpecies(temp, clouds, overallScore),
        tips |-> Tips(wind, temp, pressure, moonPhase.phase, clouds)]

\* DefaultConditions with a rating that is not the bucket of its score
DefaultConditions_RatedGood ==
    [overallScore |-> 60,
     rating |-> "Good",
     factors |-> <<>>,
     bestTime |-> <<<<6, "am">>, <<8, "am">>>>,
     targetSpecies |-> <<[name |-> "Largemouth Bass", activity |-> "Moderate"],
                         [name |-> "Crappie", activity |-> "Moderate"]>>,
     tips |-> <<"Check local conditions before heading out">>]

\* lines 955-965
DefaultConditions ==
    [overallScore |-> 60,
     rating |-> "Fair",
     factors |-> <<>>,
     bestTime |-> <<<<6, "am">>, <<8, "am">>>>,
     targetSpecies |-> <<[name |-> "Largemouth Bass", activity |-> "Moderate"],
                         [name |-> "Crappie", activity |-> "Moderate"]>>,
     tips |-> <<"Check local conditions before heading out">>]

\* data.current of the responses that carry one: pressure_msl (hPa),
\* wind_speed_10m (mph), cloud_cover (%); {} carries none of them
FishCurrents ==
    {[pressure_msl |-> 1018, wind_speed_10m |-> 10, cloud_cover |-> 55],
     [pressure_msl |-> 1005, wind_speed_10m |-> 30, cloud_cover |-> 0],
     [pressure_msl |-> 1012, wind_speed_10m |-> 3, cloud_cover |-> 80],
     [pressure_msl |-> NaN, wind_speed_10m |-> NaN, cloud_cover |-> NaN]}

\* new Date() at the call: dates of today's era, 331 synodic months after
\* the reference new moon, in four different phases
FishDates == {331 * SynodicMonth + o : o \in {0, 369000, 737500, 1476000}}

WaterTemps == {58, 68, 90}

\* how a call fails before anything is set: fetch rejects; json() throws
FishFailures == {"networkError", "parseError"}

\* lines 719-729
calculateConditions ==
    /\ mounted = "fish"
    /\ Call
    /\ loading' = TRUE
    /\ UNCHANGED error
    /\ UNCHANGED <<usgsVars, weatherVars, fishVars, chartVars, mapVars>>
    /\ UNCHANGED <<routeVars, moonVars, floodVars, calcVars, boundaryVars>>

\* lines 731-951: a body with a `current` block
FishComputes(id, current, diff) ==
    /\ Settle(id, IF IsNum(current.pressure_msl) THEN "ok" ELSE "emptyCurrent")
    /\ moonData' = getMoonPhase(diff)
    /\ conditions' = ComputedConditions(current, waterTemp, diff)
    /\ writer' = id
    /\ origin' = "live"

\* FishNoCurrent without the catch block: the TypeError leaves the function
FishNoCurrent_Uncaught(id, diff) ==
    /\ Settle(id, "noCurrent")
    /\ moonData' = getMoonPhase(diff)
    /\ UNCHANGED <<conditions, writer, origin>>

\* lines 731-743 and 952-965: a body without a `current` block (an error
\* body of the service, too: response.ok is not looked at); setMoonData has
\* run when current.pressure_msl throws
FishNoCurrent(id, diff) ==
    /\ Settle(id, "noCurrent")
    /\ moonData' = getMoonPhase(diff)
    /\ conditions' = DefaultConditions
    /\ writer' = id
    /\ origin' = "fallback"

\* lines 952-965
FishFails(id, kind) ==
    /\ Settle(id, kind)
    /\ conditions' = DefaultConditions
    /\ writer' = id
    /\ origin' = "fallback"
    /\ UNCHANGED moonData

\* lines 731-968
calculateConditionsSettled ==
    /\ mounted = "fish"
    /\ \E id \in inflight :
         \/ \E current \in FishCurrents, diff \in FishDates :
              FishComputes(id, current, diff)
         \/ \E diff \in FishDates : FishNoCurrent(id, diff)
         \/ \E kind \in FishFailures : FishFails(id, kind)
    /\ loading' = FALSE
    /\ UNCHANGED <<error, waterTemp>>
    /\ UNCHANGED <<usgsVars, weatherVars, chartVars, mapVars>>
    /\ UNCHANGED <<routeVars, moonVars, floodVars, calcVars, boundaryVars>>

(***************************************************************************)
(* What the mounted widget renders                                         *)
(***************************************************************************)
Last(s) == s[Len(s)]

\* USGSWaterData lines 93-119 (and 351-377): the red panel with Retry
UsgsErrorPanel ==
    /\ mounted \in {"usgs", "usgsSim"}
    /\ ~(loading /\ waterData = NULL)
    /\ error # NoError /\ waterData = NULL

\* WeatherWidget lines 150-170
WeatherErrorPanel ==
    /\ mounted = "weather"
    /\ ~(loading /\ weather = NULL)
    /\ error # NoError /\ weather = NULL

\* WaterLevelChart lines 338-346
ChartErrorPanel ==
    /\ mounted = "chart"
    /\ ~loading
    /\ error # NoError

\* FishActivityIndex lines 978-989: past the spinner with nothing to show
FishBlank ==
    /\ mounted = "fish"
    /\ ~(loading /\ conditions = NULL)
    /\ conditions = NULL

(***************************************************************************)
(* The states after construction                                           *)
(***************************************************************************)
Widgets == {"usgs", "usgsSim", "weather", "fish", "chart", "map"}

\* the useState initial values of every widget
WidgetStates ==
    /\ started = 0
    /\ inflight = {}
    /\ done = <<>>
    /\ overlapped = FALSE
    /\ writer = 0
    /\ error = NoError
    /\ waterData = NULL
    /\ weather = NULL
    /\ hourlyForecast = <<>>
    /\ conditions = NULL
    /\ moonData = NULL
    /\ timeRange = "30d"
    /\ closureRange = <<>>
    /\ series = <<>>
    /\ data = <<>>
    /\ stats = NULL
    /\ lakePolygon = FALLBACK_LAKE_POLYGON
    /\ boundarySource = "loading"

WidgetsInit ==
    /\ mounted \in Widgets
    /\ WidgetStates
    \* LakeMap has no loading state; it starts on its fallback polygon
    /\ loading = (mounted # "map")
    /\ origin = IF mounted = "map" THEN "fallback" ELSE "none"
    /\ waterTemp \in IF mounted = "fish" THEN WaterTemps ELSE {68}

WidgetsOff ==
    /\ mounted = "none"
    /\ WidgetStates
    /\ loading = TRUE
    /\ origin = "none"
    /\ waterTemp = 68

MoonInit ==
    /\ mDate \in MoonDates
    /\ mCalled = {}
    /\ mData = NoMoon
    /\ mDataNext = NoMoon
    /\ mPhase = NoMoon
    /\ mPhaseNext = NoMoon
    /\ mSolunar = NoSolunar

(***************************************************************************)
(* The moon-phase functions applied                                        *)
(***************************************************************************)
CallGetMoonData ==
    /\ "getMoonData" \notin mCalled
    /\ mCalled' = mCalled \cup {"getMoonData"}
    /\ mData' = getMoonData(mDate)
    /\ UNCHANGED <<mDate, mDataNext, mPhase, mPhaseNext, mSolunar>>
    /\ UNCHANGED <<routeVars, widgetVars, floodVars, calcVars, boundaryVars>>

CallGetMoonDataNextMonth ==
    /\ "getMoonData next month" \notin mCalled
    /\ mCalled' = mCalled \cup {"getMoonData next month"}
    /\ mDataNext' = getMoonData(mDate + SynodicMonth)
    /\ UNCHANGED <<mDate, mData, mPhase, mPhaseNext, mSolunar>>
    /\ UNCHANGED <<routeVars, widgetVars, floodVars, calcVars, boundaryVars>>

CallGetMoonPhase ==
    /\ "getMoonPhase" \notin mCalled
    /\ mCalled' = mCalled \cup {"getMoonPhase"}
    /\ mPhase' = getMoonPhase(mDate)
    /\ UNCHANGED <<mDate, mData, mDataNext, mPhaseNext, mSolunar>>
    /\ UNCHANGED <<routeVars, widgetVars, floodVars, calcVars, boundaryVars>>

CallGetMoonPhaseNextMonth ==
    /\ "getMoonPhase next month" \notin mCalled
    /\ mCalled' = mCalled \cup {"getMoonPhase next month"}
    /\ mPhaseNext' = getMoonPhase(mDate + SynodicMonth)
    /\ UNCHANGED <<mDate, mData, mDataNext, mPhase, mSolunar>>
    /\ UNCHANGED <<routeVars, widgetVars, floodVars, calcVars, boundaryVars>>

\* part_003 line 737: getSolunarPeriods(date, lat)
CallGetSolunarPeriods ==
    /\ "getSolunarPeriods" \notin mCalled
    /\ mCalled' = mCalled \cup {"getSolunarPeriods"}
    /\ mSolunar' = getSolunarPeriods(mDate)
    /\ UNCHANGED <<mDate, mData, mDataNext, mPhase, mPhaseNext>>
    /\ UNCHANGED <<routeVars, widgetVars, floodVars, calcVars, boundaryVars>>

(***************************************************************************)
(* The flood simulation slider                                             *)
(***************************************************************************)
\* part_001 lines 418-424 and 122: onChange of the range input, and the
\* render that follows
setFloodLevel ==
    /\ \E e \in SliderMin..SliderMax :
         /\ floodLevel' = e
         /\ floodImpact' = calculateFloodImpact(e)
    /\ UNCHANGED <<routeVars, widgetVars, moonVars, calcVars, boundaryVars>>

(***************************************************************************)
(* BoatRampStatus and getRampStatus (WeatherWidget.tsx lines 336-444).     *)
(* Elevations are in 1/10 ft.                                              *)
(***************************************************************************)
\* lines 355-406: id, minElevation and optimalElevation of the five ramps
BOAT_RAMPS ==
    <<[id |-> "potato-hills", minElevation |-> 5900, optimalElevation |-> 5950],
      [id |-> "potato-hills-south", minElevation |-> 5880,
       optimalElevation |-> 5940],
      [id |-> "sardis-cove", minElevation |-> 5850, optimalElevation |-> 5920],
      [id |-> "billy-creek", minElevation |-> 5920, optimalElevation |-> 5970],
      [id |-> "jackfork", minElevation |-> 5940, optimalElevation |-> 5980]>>

\* the elevations the prop takes: 583.0 ft to 600.0 ft
RampElevations == 5830..6000

\* getRampStatus with the second band starting at the minimum elevation
getRampStatus_NoLimited(ramp, elevation) ==
    IF elevation >= ramp.optimalElevation
    THEN [status |-> "open", message |-> "Fully operational - optimal conditions",
          launchable |-> <<"All vessels", "Large boats", "Pontoons", "PWC">>]
    ELSE IF elevation >= ramp.minElevation
    THEN [status |-> "open", message |-> "Accessible - good conditions",
          launchable |-> <<"Most boats", "Medium vessels", "PWC">>]
    ELSE [status |-> "closed", message |-> "Closed",
          launchable |-> <<>>]

\* lines 412-444; of the two messages that quote diff, the fixed part
getRampStatus(ramp, elevation) ==
    IF elevation >= ramp.optimalElevation
    THEN [status |-> "open", message |-> "Fully operational - optimal conditions",
          launchable |-> <<"All vessels", "Large boats", "Pontoons", "PWC">>]
    ELSE IF elevation >= ramp.minElevation + 30
    THEN [status |-> "open", message |-> "Accessible - good conditions",
          launchable |-> <<"Most boats", "Medium vessels", "PWC">>]
    ELSE IF elevation >= ramp.minElevation
    THEN [status |-> "limited", message |-> "Limited access",
          launchable |-> <<"Small boats", "Kayaks", "Canoes", "PWC">>]
    ELSE [status |-> "closed", message |-> "Closed",
          launchable |-> <<>>]

\* lines 450-455: BOAT_RAMPS.map(ramp => getRampStatus(ramp, currentElevation))
RampStatuses(elevation) ==
    [i \in DOMAIN BOAT_RAMPS |-> getRampStatus(BOAT_RAMPS[i], elevation)]

\* the first render, at the normal pool
RampInit ==
    /\ currentElevation = 5990
    /\ rampStatuses = RampStatuses(5990)

\* the prop changes and useMemo recomputes
RenderRampStatus ==
    /\ \E e \in RampElevations :
         /\ currentElevation' = e
         /\ rampStatuses' = RampStatuses(e)
    /\ UNCHANGED <<routeVars, widgetVars, moonVars, floodVars, dayVars,
                   fishCalcVars, ringVars, boundaryVars>>

(***************************************************************************)
(* rateDayForRecreation (WeatherWidget.tsx lines 693-724)                  *)
(***************************************************************************)
\* lines 701-704
TemperatureAdjustment(tempHigh) ==
    IF tempHigh < 50 \/ tempHigh > 95 THEN 0 - 30
    ELSE IF tempHigh < 60 \/ tempHigh > 90 THEN 0 - 15
    ELSE IF tempHigh >= 70 /\ tempHigh <= 85 THEN 10
    ELSE 0

\* lines 706-709
PrecipitationAdjustment(precipProbability) ==
    IF precipProbability > 70 THEN 0 - 40
    ELSE IF precipProbability > 40 THEN 0 - 20
    ELSE IF precipProbability > 20 THEN 0 - 10
    ELSE 0

\* lines 711-713
WindAdjustment(windSpeed) ==
    IF windSpeed > 25 THEN 0 - 25
    ELSE IF windSpeed > 15 THEN 0 - 10
    ELSE 0

\* lines 715-718
WeatherCodeAdjustment(weatherCode) ==
    IF weatherCode >= 95 THEN 0 - 30
    ELSE IF weatherCode >= 61 THEN 0 - 20
    ELSE IF weatherCode <= 3 THEN 5
    ELSE 0

\* RecreationScore kept within 0..100
RecreationScore_Clamped(d) ==
    Max(0, Min(100,
        100 + TemperatureAdjustment(d.tempHigh)
            + PrecipitationAdjustment(d.precipProbability)
            + WindAdjustment(d.windSpeed)
            + WeatherCodeAdjustment(d.weatherCode)))

\* lines 699-718: the local `score` after the four blocks
RecreationScore(d) ==
    100 + TemperatureAdjustment(d.tempHigh)
        + PrecipitationAdjustment(d.precipProbability)
        + WindAdjustment(d.windSpeed)
        + WeatherCodeAdjustment(d.weatherCode)

\* lines 720-723
rateDayForRecreation(d) ==
    IF RecreationScore(d) >= 80 THEN "Excellent"
    ELSE IF RecreationScore(d) >= 60 THEN "Good"
    ELSE IF RecreationScore(d) >= 40 THEN "Fair"
    ELSE "Poor"

\* the days rated: every band of every category, with the values at the
\* thresholds of precipitation and wind
ForecastDays ==
    [tempHigh : {45, 55, 65, 78, 88, 93, 100},
     precipProbability : {10, 20, 21, 40, 41, 70, 71},
     windSpeed : {8, 15, 16, 25, 26},
     weatherCode : {1, 3, 45, 60, 61, 95}]

DayInit ==
    /\ day = [tempHigh |-> 78, precipProbability |-> 10, windSpeed |-> 8,
              weatherCode |-> 1]
    /\ dayScore = RecreationScore(day)
    /\ dayRating = rateDayForRecreation(day)

\* line 867: a day of the forecast is rated
RateDay ==
    /\ \E d \in ForecastDays :
         /\ day' = d
         /\ dayScore' = RecreationScore(d)
         /\ dayRating' = rateDayForRecreation(d)
    /\ UNCHANGED <<routeVars, widgetVars, moonVars, floodVars, rampVars,
                   fishCalcVars, ringVars, boundaryVars>>

(***************************************************************************)
(* calculateConditions as a function of its inputs (part_003 lines         *)
(* 731-951), over every band of every factor, and the tips it renders.     *)
(***************************************************************************)
\* weather.current: pressure_msl of 29.68, 29.88, 30.06, 30.36 and 30.71
\* inHg; wind_speed_10m and cloud_cover in every band
CalcCurrents ==
    [pressure_msl : {1005, 1012, 1018, 1028, 1040},
     wind_speed_10m : {2, 10, 20, 30},
     cloud_cover : {20, 45, 55, 80}]

CalcWaterTemps == {40, 58, 68, 78, 90}

CalcInputs == [current : CalcCurrents, waterTemp : CalcWaterTemps, date : FishDates]

\* part_003 lines 1098-1107: conditions.tips.slice(0, 3)
RenderedTips(c) == SubSeq(c.tips, 1, Min(3, Len(c.tips)))

FishCalcInit ==
    /\ fInput = [current |-> [pressure_msl |-> 1018, wind_speed_10m |-> 10,
                              cloud_cover |-> 55],
                 waterTemp |-> 68, date |-> 331 * SynodicMonth]
    /\ fConditions = ComputedConditions(fInput.current, fInput.waterTemp,
                                        fInput.date)

\* a response with a `current` block arrives and lines 731-951 run
ComputeConditions ==
    /\ \E in \in CalcInputs :
         /\ fInput' = in
         /\ fConditions' = ComputedConditions(in.current, in.waterTemp, in.date)
    /\ UNCHANGED <<routeVars, widgetVars, moonVars, floodVars, rampVars, dayVars,
                   ringVars, boundaryVars>>

(***************************************************************************)
(* mergeRings (part_000 lines 332-407).  Coordinates are integers in units *)
(* of 0.00005 degree; the rings are ways of two nodes.                     *)
(***************************************************************************)
MaxRings == 3

\* line 350: tolerance = 0.0001
Tolerance == 2

Abs(x) == IF x < 0 THEN 0 - x ELSE x

\* Math.abs(p[0] - q[0]) < tolerance && Math.abs(p[1] - q[1]) < tolerance
Near(p, q) ==
    Abs(p[1] - q[1]) < Tolerance /\ Abs(p[2] - q[2]) < Tolerance

Reverse(s) == [i \in 1..Len(s) |-> s[Len(s) + 1 - i]]

\* the nodes of the ways: two pairs of points half a tolerance apart, and a
\* point that is close to another in longitude only
RingPoints == {<<0, 0>>, <<1, 0>>, <<10, 0>>, <<10, 1>>, <<0, 10>>}
WayRings == {<<w[1], w[2]>> : w \in {x \in RingPoints \X RingPoints : x[1] # x[2]}}
RingInputs == UNION {[1..n -> WayRings] : n \in 0..MaxRings}

\* Connection testing the forward connections only
Connection_ForwardOnly(chain, ring) ==
    LET mergedStart == chain[1]
        mergedEnd == chain[Len(chain)]
        ringStart == ring[1]
        ringEnd == ring[Len(ring)]
    IN IF Near(mergedEnd, ringStart) THEN "end-start"
       ELSE IF Near(mergedStart, ringEnd) THEN "start-end"
       ELSE "none"

\* lines 345-393: the first of the four tests that the ring meets
Connection(chain, ring) ==
    LET mergedStart == chain[1]
        mergedEnd == chain[Len(chain)]
        ringStart == ring[1]
        ringEnd == ring[Len(ring)]
    IN IF Near(mergedEnd, ringStart) THEN "end-start"
       ELSE IF Near(mergedStart, ringEnd) THEN "start-end"
       ELSE IF Near(mergedEnd, ringEnd) THEN "end-end"
       ELSE IF Near(mergedStart, ringStart) THEN "start-start"
       ELSE "none"

\* lines 357, 368, 379, 390: the push or unshift of the test met
Stitch(chain, ring, how) ==
    CASE how = "end-start" -> chain \o SubSeq(ring, 2, Len(ring))
      [] how = "start-end" -> SubSeq(ring, 1, Len(ring) - 1) \o chain
      [] how = "end-end" -> chain \o SubSeq(Reverse(ring), 2, Len(ring))
      [] how = "start-start" -> SubSeq(Reverse(ring), 1, Len(ring) - 1) \o chain

\* lines 397-404
Closed(chain) ==
    IF chain # <<>> /\ chain[1] # chain[Len(chain)]
    THEN Append(chain, chain[1]) ELSE chain

\* the positions of `remaining` whose ring meets one of the tests
Matches ==
    {k \in DOMAIN remaining : Connection(merged, rings[remaining[k]]) # "none"}

RingsInit ==
    /\ rings \in RingInputs
    /\ merged = <<>>
    /\ remaining = <<>>
    /\ mergePc = "start"
    /\ mergeResult = <<>>

RingsOff ==
    /\ rings = <<>>
    /\ merged = <<>>
    /\ remaining = <<>>
    /\ mergePc = "done"
    /\ mergeResult = <<>>

\* lines 333-334
MergeReturnsEarly ==
    /\ mergePc = "start"
    /\ Len(rings) <= 1
    /\ mergeResult' = IF Len(rings) = 0 THEN <<>> ELSE rings[1]
    /\ mergePc' = "done"
    /\ UNCHANGED <<rings, merged, remaining>>
    /\ UNCHANGED <<routeVars, widgetVars, moonVars, floodVars, rampVars, dayVars,
                   fishCalcVars, boundaryVars>>

\* lines 336-339
MergeBegins ==
    /\ mergePc = "start"
    /\ Len(rings) > 1
    /\ merged' = rings[1]
    /\ remaining' = [k \in 1..(Len(rings) - 1) |-> k + 1]
    /\ mergePc' = "loop"
    /\ UNCHANGED <<rings, mergeResult>>
    /\ UNCHANGED <<routeVars, widgetVars, moonVars, floodVars, rampVars, dayVars,
                   fishCalcVars, boundaryVars>>

\* MergePass without the splice of line 358, 369, 380 or 391
MergePass_NoSplice ==
    /\ mergePc = "loop"
    /\ Matches # {}
    /\ LET i == CHOOSE k \in Matches : \A j \in Matches : k <= j
           ring == rings[remaining[i]]
       IN merged' = Stitch(merged, ring, Connection(merged, ring))
    /\ UNCHANGED <<rings, remaining, mergePc, mergeResult>>
    /\ UNCHANGED <<routeVars, widgetVars, moonVars, floodVars, rampVars, dayVars,
                   fishCalcVars, boundaryVars>>

\* lines 340-394: a pass of the for loop that merges the first ring of
\* `remaining` that meets a test, and breaks
MergePass ==
    /\ mergePc = "loop"
    /\ Matches # {}
    /\ LET i == CHOOSE k \in Matches : \A j \in Matches : k <= j
           ring == rings[remaining[i]]
       IN /\ merged' = Stitch(merged, ring, Connection(merged, ring))
          /\ remaining' = SubSeq(remaining, 1, i - 1)
                            \o SubSeq(remaining, i + 1, Len(remaining))
    /\ UNCHANGED <<rings, mergePc, mergeResult>>
    /\ UNCHANGED <<routeVars, widgetVars, moonVars, floodVars, rampVars, dayVars,
                   fishCalcVars, boundaryVars>>

\* lines 340 and 397-406: nothing remains, or a pass merged nothing; the
\* chain is closed and returned
MergeReturns ==
    /\ mergePc = "loop"
    /\ Matches = {}
    /\ mergeResult' = Closed(merged)
    /\ mergePc' = "done"
    /\ UNCHANGED <<rings, merged, remaining>>
    /\ UNCHANGED <<routeVars, widgetVars, moonVars, floodVars, rampVars, dayVars,
                   fishCalcVars, boundaryVars>>

(***************************************************************************)
(* GET /api/lake-boundary (part_000 lines 156-329)                         *)
(***************************************************************************)
\* lines 336-406 as a function of the chain and the rings not merged yet:
\* the first ring that meets a test is stitched and the scan restarts; when
\* none does the chain is closed and returned
RECURSIVE MergeLoop(_, _)
MergeLoop(chain, rest) ==
    LET hits == {k \in DOMAIN rest : Connection(chain, rest[k]) # "none"}
    IN IF hits = {} THEN Closed(chain)
       ELSE LET i == CHOOSE k \in hits : \A j \in hits : k <= j
            IN MergeLoop(Stitch(chain, rest[i], Connection(chain, rest[i])),
                         SubSeq(rest, 1, i - 1) \o SubSeq(rest, i + 1, Len(rest)))

\* lines 332-407
mergeRings(rs) ==
    IF Len(rs) = 0 THEN <<>>
    ELSE IF Len(rs) = 1 THEN rs[1]
    ELSE MergeLoop(rs[1], Tail(rs))

\* at most this many elements in an Overpass answer
MaxElements == 2

\* a property the element does not have; Overpass sends no empty `geometry`
\* or `members` array, which leaves <<>> free to stand for `undefined`
Absent == <<>>

\* nodes of the ways, in units of 0.00005 degree
NodeA == <<0, 0>>
NodeB == <<10, 0>>
NodeC == <<0, 10>>

Way(geometry) == [type |-> "way", geometry |-> geometry, members |-> Absent]
Relation(members) ==
    [type |-> "relation", geometry |-> Absent, members |-> members]
Member(type, role, geometry) ==
    [type |-> type, role |-> role, geometry |-> geometry]

\* the member lists of the relations: absent, one outer way (open,
\* closed, without geometry), outer ways that chain (forward and reversed),
\* an outer way beside one without geometry, an inner way, a node
RelationMembers ==
    {Absent,
     <<Member("way", "outer", <<NodeA, NodeB>>)>>,
     <<Member("way", "outer", <<NodeA, NodeB, NodeC, NodeA>>)>>,
     <<Member("way", "outer", Absent)>>,
     <<Member("way", "inner", <<NodeA, NodeB>>)>>,
     <<Member("node", "outer", Absent)>>,
     <<Member("way", "outer", <<NodeA, NodeB>>),
       Member("way", "outer", <<NodeB, NodeC>>)>>,
     <<Member("way", "outer", <<NodeA, NodeB>>),
       Member("way", "outer", <<NodeC, NodeB>>)>>,
     <<Member("way", "outer", <<NodeA, NodeB>>),
       Member("way", "outer", Absent)>>,
     <<Member("way", "outer", <<NodeA, NodeB, NodeC>>),
       Member("way", "inner", <<NodeB, NodeC>>)>>}

\* the elements Overpass answers with (`out body geom`): ways, open or
\* closed, with their nodes or without geometry; relations; a node
OverpassElements ==
    {Way(<<NodeA, NodeB, NodeC>>), Way(<<NodeA, NodeB, NodeC, NodeA>>),
     Way(Absent), [type |-> "node", geometry |-> Absent, members |-> Absent]}
      \cup {Relation(m) : m \in RelationMembers}
ElementInputs == UNION {[1..n -> OverpassElements] : n \in 0..MaxElements}

\* the `name` search parameter; "" is the absent or empty parameter, both
\* falsy at line 158
NameParams == {"", "Sardis Lake", "Sardis"}

\* line 158
LakeName(name) == IF name = "" THEN "Sardis Lake" ELSE name

\* lines 275-297, in units of 0.00005 degree
ApproximateBoundary ==
    <<
      <<0 - 1907240, 693912>>, <<0 - 1907004, 693824>>, <<0 - 1906830, 693690>>,
      <<0 - 1906760, 693556>>, <<0 - 1906790, 693390>>, <<0 - 1906896, 693224>>,
      <<0 - 1907064, 693090>>, <<0 - 1907296, 692990>>, <<0 - 1907570, 692924>>,
      <<0 - 1907850, 692890>>, <<0 - 1908136, 692924>>, <<0 - 1908370, 693024>>,
      <<0 - 1908524, 693190>>, <<0 - 1908590, 693390>>, <<0 - 1908556, 693590>>,
      <<0 - 1908430, 693756>>, <<0 - 1908224, 693890>>, <<0 - 1907970, 693956>>,
      <<0 - 1907696, 693956>>, <<0 - 1907440, 693912>>, <<0 - 1907240, 693912>>
    >>

\* lines 214-226 and 245-257
OsmFeature(lakeName, ring) ==
    [name |-> lakeName, source |-> "OpenStreetMap", ring |-> ring]

\* lines 229-239: the geometry of the outer member ways that carry one
IsOuterRing(member) ==
    member.type = "way" /\ member.role = "outer" /\ member.geometry # Absent
OuterRings(members) ==
    LET outer == SelectSeq(members, IsOuterRing)
    IN [k \in 1..Len(outer) |-> outer[k].geometry]

\* lines 198-259: the features pushed for one element
ElementFeatures(element, lakeName) ==
    IF element.type = "way" /\ element.geometry # Absent
    THEN <<OsmFeature(lakeName, Closed(element.geometry))>>
    ELSE IF element.type = "relation" /\ element.members # Absent
    THEN LET outerRings == OuterRings(element.members)
         IN IF Len(outerRings) > 0
            THEN <<OsmFeature(lakeName, mergeRings(outerRings))>>
            ELSE <<>>
    ELSE <<>>

\* lines 195-260
RECURSIVE Features(_, _)
Features(elements, lakeName) ==
    IF elements = <<>> THEN <<>>
    ELSE ElementFeatures(Head(elements), lakeName)
           \o Features(Tail(elements), lakeName)

\* lines 264-304
FallbackResponse(lakeName) ==
    [status |-> 200,
     features |-> <<[name |-> lakeName, source |-> "approximate",
                     ring |-> ApproximateBoundary]>>,
     meta |-> [source |-> "fallback", query |-> "", count |-> 0 - 1],
     error |-> NoError, message |-> ""]

\* the answer without the test of line 262
BoundaryResponse_NoFallback(features, lakeName) ==
    [status |-> 200,
     features |-> features,
     meta |-> [source |-> "OpenStreetMap", query |-> lakeName,
               count |-> Len(features)],
     error |-> NoError, message |-> ""]

\* lines 262-316; count -1 and query "" stand for the absent fields of
\* the fallback's meta
BoundaryResponse(features, lakeName) ==
    IF Len(features) = 0 THEN FallbackResponse(lakeName)
    ELSE [status |-> 200,
          features |-> features,
          meta |-> [source |-> "OpenStreetMap", query |-> lakeName,
                    count |-> Len(features)],
          error |-> NoError, message |-> ""]

\* lines 318-328
BoundaryError(message) ==
    [status |-> 502, features |-> <<>>,
     meta |-> [source |-> "", query |-> "", count |-> 0 - 1],
     error |-> "Failed to fetch lake boundary", message |-> message]

BoundaryInit ==
    /\ bPc = "idle"
    /\ bName = ""
    /\ bElements = <<>>
    /\ bResponse = NULL

\* lines 156-186: a request arrives and Overpass is queried
BoundaryRequest ==
    /\ bPc = "idle"
    /\ \E name \in NameParams : bName' = name
    /\ bPc' = "fetching"
    /\ UNCHANGED <<bElements, bResponse>>
    /\ UNCHANGED <<routeVars, widgetVars, moonVars, floodVars, calcVars>>

\* line 178 rejects (network error): caught at line 318
OverpassRejects ==
    /\ bPc = "fetching"
    /\ bResponse' = BoundaryError("fetch failed")
    /\ bPc' = "done"
    /\ UNCHANGED <<bName, bElements>>
    /\ UNCHANGED <<routeVars, widgetVars, moonVars, floodVars, calcVars>>

\* lines 188-190: the answer is not ok
OverpassNotOk ==
    /\ bPc = "fetching"
    /\ bResponse' = BoundaryError("Overpass API returned 504")
    /\ bPc' = "done"
    /\ UNCHANGED <<bName, bElements>>
    /\ UNCHANGED <<routeVars, widgetVars, moonVars, floodVars, calcVars>>

\* lines 192 and 197: the body is not JSON, or has no `elements` to iterate
OverpassMalformed ==
    /\ bPc = "fetching"
    /\ bResponse' = BoundaryError("Unexpected token < in JSON")
    /\ bPc' = "done"
    /\ UNCHANGED <<bName, bElements>>
    /\ UNCHANGED <<routeVars, widgetVars, moonVars, floodVars, calcVars>>

\* lines 192-316: the answer is ok and carries elements
OverpassAnswers ==
    /\ bPc = "fetching"
    /\ \E elements \in ElementInputs :
          /\ bElements' = elements
          /\ bResponse' = BoundaryResponse(
                              Features(elements, LakeName(bName)),
                              LakeName(bName))
    /\ bPc' = "done"
    /\ UNCHANGED bName
    /\ UNCHANGED <<routeVars, widgetVars, moonVars, floodVars, calcVars>>

CalcOff ==
    RampInit /\ DayInit /\ FishCalcInit /\ RingsOff /\ BoundaryInit

(***************************************************************************)
(* Specifications                                                          *)
(***************************************************************************)
InitRoute == RouteInit /\ WidgetsOff /\ MoonOff /\ FloodInit /\ CalcOff
SpecRoute == InitRoute /\ [][NextRoute]_vars

InitWidgets == RouteInit /\ WidgetsInit /\ MoonOff /\ FloodInit /\ CalcOff
NextWidgets ==
    \/ fetchWaterData
    \/ fetchWaterDataSettled
    \/ fetchWaterDataSim
    \/ fetchWaterDataSimSettled
    \/ fetchWeather
    \/ fetchWeatherSettled
    \/ calculateConditions
    \/ calculateConditionsSettled
    \/ fetchHistoricalData
    \/ fetchHistoricalDataSettled
    \/ setTimeRange
    \/ fetchBoundary
    \/ fetchBoundarySettled
SpecWidgets == InitWidgets /\ [][NextWidgets]_vars

InitMoon == RouteInit /\ WidgetsOff /\ MoonInit /\ FloodInit /\ CalcOff
NextMoon ==
    \/ CallGetMoonData
    \/ CallGetMoonDataNextMonth
    \/ CallGetMoonPhase
    \/ CallGetMoonPhaseNextMonth
    \/ CallGetSolunarPeriods
SpecMoon == InitMoon /\ [][NextMoon]_vars

InitFlood == RouteInit /\ WidgetsOff /\ MoonOff /\ FloodInit /\ CalcOff
NextFlood == setFloodLevel
SpecFlood == InitFlood /\ [][NextFlood]_vars

InitRamp == RouteInit /\ WidgetsOff /\ MoonOff /\ FloodInit /\ CalcOff
NextRamp == RenderRampStatus
SpecRamp == InitRamp /\ [][NextRamp]_vars

InitDay == RouteInit /\ WidgetsOff /\ MoonOff /\ FloodInit /\ CalcOff
NextDay == RateDay
SpecDay == InitDay /\ [][NextDay]_vars

InitFishCalc == RouteInit /\ WidgetsOff /\ MoonOff /\ FloodInit /\ CalcOff
NextFishCalc == ComputeConditions
SpecFishCalc == InitFishCalc /\ [][NextFishCalc]_vars

InitRings ==
    /\ RouteInit /\ WidgetsOff /\ MoonOff /\ FloodInit
    /\ RampInit /\ DayInit /\ FishCalcInit /\ RingsInit /\ BoundaryInit
NextRings == MergeReturnsEarly \/ MergeBegins \/ MergePass \/ MergeReturns
SpecRings == InitRings /\ [][NextRings]_vars
\* mergeRings is synchronous code: once called it keeps taking its steps;
\* the ways run between four of the nodes
InitRingsLive ==
    /\ RouteInit /\ WidgetsOff /\ MoonOff /\ FloodInit
    /\ RampInit /\ DayInit /\ FishCalcInit /\ RingsInit /\ BoundaryInit
    /\ \A k \in DOMAIN rings : Range(rings[k]) \subseteq RingPoints \ {<<10, 1>>}
SpecRingsLive == InitRingsLive /\ [][NextRings]_vars /\ WF_vars(NextRings)

InitBoundary == RouteInit /\ WidgetsOff /\ MoonOff /\ FloodInit /\ CalcOff
NextBoundary ==
    \/ BoundaryRequest
    \/ OverpassRejects
    \/ OverpassNotOk
    \/ OverpassMalformed
    \/ OverpassAnswers
SpecBoundary == InitBoundary /\ [][NextBoundary]_vars

\* the whole dashboard: every part takes its steps
Init ==
    /\ RouteInit /\ WidgetsInit /\ MoonInit /\ FloodInit
    /\ RampInit /\ DayInit /\ FishCalcInit /\ RingsInit /\ BoundaryInit
Next == NextRoute \/ NextWidgets \/ NextMoon \/ NextFlood \/ NextRamp
           \/ NextDay \/ NextFishCalc \/ NextRings \/ NextBoundary
Spec == Init /\ [][Next]_vars

(***************************************************************************)
(* Properties                                                              *)
(***************************************************************************)
DoneKinds == {done[i][2] : i \in DOMAIN done}
Settled == Len(done') > Len(done)

\* C1 (SpecRoute): a 502 response is produced only after each of the three
\* alternate sites 07335790, 07335500 and 07336200 has been requested.
C1_AlternatesTriedBefore502 ==
    rResponse.status = 502 =>
        \A i \in DOMAIN altSites : altSites[i] \in Range(rRequested)

\* C2 as claimed (SpecWidgets): no widget is ever in a state that renders
\* an error panel (or, having nothing to show, renders nothing).
C2_NeverAnErrorPanel ==
    ~UsgsErrorPanel /\ ~WeatherErrorPanel /\ ~ChartErrorPanel /\ ~FishBlank

\* the outcomes of a WeatherWidget fetch that reach setWeather
WeatherDelivered == {"ok", "emptyCurrent", "noHourly"}

\* C2 as amended (SpecWidgets): the simulated-fallback USGSWaterData,
\* FishActivityIndex, WaterLevelChart and LakeMap never render an error
\* panel, and the first two hold data to show after every completed fetch;
\* the proxy-backed USGSWaterData renders its error panel exactly when the
\* last thing that happened is a fetch that failed, and WeatherWidget
\* exactly when the last thing that happened is a failed fetch and no fetch
\* has ever delivered weather.
C2_ErrorPanelOnlyWithoutData ==
    /\ (mounted \in {"usgsSim", "fish", "chart", "map"}) =>
          ~UsgsErrorPanel /\ ~ChartErrorPanel /\ ~FishBlank
    /\ (mounted = "usgsSim" /\ done # <<>>) => waterData # NULL
    /\ (mounted = "fish" /\ done # <<>>) => conditions # NULL
    /\ (mounted = "usgs") =>
          (UsgsErrorPanel <=>
              (~loading /\ done # <<>> /\ Last(done)[2] # "ok"))
    /\ (mounted = "weather") =>
          (WeatherErrorPanel <=>
              (~loading /\ done # <<>> /\ DoneKinds \cap WeatherDelivered = {}))

\* C2 witness: the proxy-backed widget lost its data to a failed fetch that
\* came after a successful one, and shows the error panel.
C2_Witness ==
    /\ mounted = "usgs"
    /\ Len(done) = 2
    /\ done[1][2] = "ok" /\ done[2][2] = "networkError"
    /\ UsgsErrorPanel

\* C3 (SpecWidgets): every failed fetch of FishActivityIndex (rejected
\* fetch, unparseable body, body without `current`) ends with conditions
\* set to the default record (score 60, Fair, one tip) and loading false.
C3_FailedFetchGivesDefault ==
    [][(mounted = "fish" /\ Settled
          /\ Last(done')[2] \in FishFailures \cup {"noCurrent"})
        => (/\ conditions' # NULL
            /\ conditions'.overallScore = 60
            /\ conditions'.rating = "Fair"
            /\ Len(conditions'.tips) = 1
            /\ conditions'.factors = <<>>
            /\ loading' = FALSE)]_vars

\* C3 witness: a body without `current` arrived after computed conditions
\* were shown, and the default record replaced them.
C3_Witness ==
    /\ mounted = "fish"
    /\ Len(done) = 2
    /\ done[1][2] = "ok" /\ done[2][2] = "noCurrent"
    /\ conditions = DefaultConditions
    /\ ~loading

\* C4 (SpecWidgets): a delivered response of unexpected shape leaves the
\* widget's data as an unavailable upstream would: the fallback state, and
\* nothing computed from or updated by the malformed body.
C4_MalformedAsUnavailable ==
    [][Settled =>
        /\ (mounted = "fish"
              /\ Last(done')[2] \in {"noCurrent", "emptyCurrent"})
            => conditions' = DefaultConditions
        /\ (mounted = "weather"
              /\ Last(done')[2] \in {"noCurrent", "noHourly", "emptyCurrent"})
            => (/\ weather' = weather
                /\ hourlyForecast' = hourlyForecast
                /\ error' # NoError)
        /\ (mounted = "usgs"
              /\ Last(done')[2] \in {"errorBody", "noSeries", "emptySeries"})
            => (waterData' = NULL /\ error' # NoError)
        /\ (mounted = "usgsSim"
              /\ Last(done')[2] \in {"noSeries", "emptySeries"})
            => origin' = "fallback"]_vars

\* C5 as claimed (SpecWidgets): after overlapping fetches have all resolved,
\* the data state is the one written by the fetch that completed last.
C5_LastCompletedWins ==
    (mounted \in {"usgs", "usgsSim", "weather"}
        /\ overlapped /\ inflight = {})
    => writer = Last(done)[1]

\* the call whose completion is the last one in `kinds`; 0 when there is none
RECURSIVE LastOf(_, _)
LastOf(history, kinds) ==
    IF history = <<>> THEN 0
    ELSE IF Last(history)[2] \in kinds THEN Last(history)[1]
    ELSE LastOf(SubSeq(history, 1, Len(history) - 1), kinds)

\* C5 as amended (SpecWidgets): overlapping fetches are not cancelled (each
\* call completes), and once all have resolved: in USGSWaterData, where a
\* failure writes null, waterData is the one written by the fetch that
\* completed last; in WeatherWidget, where a fetch that fails before
\* setWeather writes nothing, weather is the one written by the last
\* completed fetch that reached setWeather, and null when none did.
C5_LastWriteWins ==
    (overlapped /\ inflight = {}) =>
        /\ {done[i][1] : i \in DOMAIN done} = 1..started
        /\ (mounted \in {"usgs", "usgsSim"}) => writer = Last(done)[1]
        /\ (mounted = "weather") =>
              /\ writer = LastOf(done, WeatherDelivered)
              /\ (writer = 0) <=> (weather = NULL)

\* C5 witness: two WeatherWidget fetches overlapped, the first started
\* completed last and failed, and weather is still the other one's.
C5_Witness ==
    /\ mounted = "weather"
    /\ overlapped /\ inflight = {}
    /\ done = <<<<2, "ok">>, <<1, "httpError">>>>
    /\ writer = 2
    /\ weather # NULL

\* the states the live path leaves for each series USGS can answer with
LiveWaterStates == {LiveWaterData(values) : values \in UsgsSeries}
LiveChartStates ==
    {<<Sampled(values), Stats(Sampled(values))>> : values \in ChartSeries}

\* C6 (SpecWidgets): a widget that shows a value of a fallback path is in a
\* state that tells it from fetched data: LakeMap by boundarySource, the
\* other two by not being a state that a fetched response leaves.
C6_FallbackIsFlagged ==
    (origin = "fallback") =>
        /\ (mounted = "map") => boundarySource # "osm"
        /\ (mounted = "usgsSim") =>
              ~(waterData \in LiveWaterStates /\ error = NoError)
        /\ (mounted = "chart") =>
              ~(<<data, stats>> \in LiveChartStates /\ error = NoError)

\* C7 (SpecMoon): the lunar day that getMoonData and getMoonPhase bucket
\* lies in [0, synodic month) for every date.
C7_LunarDayNormalized ==
    /\ ("getMoonData" \in mCalled) =>
          (0 <= MoonDataLunarDay(mDate)
              /\ MoonDataLunarDay(mDate) < SynodicMonth)
    /\ ("getMoonPhase" \in mCalled) =>
          (0 <= MoonPhaseLunarDay(mDate)
              /\ MoonPhaseLunarDay(mDate) < SynodicMonth)

\* C8 (SpecMoon): phase name and illumination of a date equal those of the
\* date one synodic month later, in getMoonData and in getMoonPhase.
C8_Periodic ==
    /\ ({"getMoonData", "getMoonData next month"} \subseteq mCalled) =>
          mData = mDataNext
    /\ ({"getMoonPhase", "getMoonPhase next month"} \subseteq mCalled) =>
          mPhase = mPhaseNext

PhaseNames ==
    {"New Moon", "Waxing Crescent", "First Quarter", "Waxing Gibbous",
     "Full Moon", "Waning Gibbous", "Last Quarter", "Waning Crescent"}

MoonContract(m) ==
    /\ m.phase \in PhaseNames
    /\ m.illumination \in 0..100
    /\ (m.phase = "New Moon") => m.illumination = 0
    /\ (m.phase \in {"First Quarter", "Last Quarter"}) => m.illumination = 50
    /\ (m.phase = "Full Moon") => m.illumination = 100

\* C9 (SpecMoon): both functions return one of the 8 phase names and an
\* integer illumination in 0..100, 0 for New Moon, 50 for the quarters and
\* 100 for Full Moon.
C9_PhaseAndIllumination ==
    /\ ("getMoonData" \in mCalled) => MoonContract(mData)
    /\ ("getMoonData next month" \in mCalled) => MoonContract(mDataNext)
    /\ ("getMoonPhase" \in mCalled) => MoonContract(mPhase)
    /\ ("getMoonPhase next month" \in mCalled) => MoonContract(mPhaseNext)

\* C9 witness: a date before the reference new moon, late in the waning
\* gibbous band of getMoonData, where the interpolation is at its largest.
C9_Witness ==
    /\ mDate < 0
    /\ {"getMoonData", "getMoonPhase"} \subseteq mCalled
    /\ mData.phase = "Waning Gibbous"
    /\ mData.illumination = 75

\* C10 (SpecFlood): additionalAcres is 0 at or below the normal pool of
\* 599 ft and round((elevation - 599) * 180) above it, over 530..631.
C10_AdditionalAcres ==
    /\ floodLevel \in 530..631
    /\ floodImpact.additionalAcres =
          IF floodLevel <= 599 THEN 0 ELSE Round((floodLevel - 599) * 180, 1)

\* C10 witness: the slider at the stream bed, far below the normal pool.
C10_Witness ==
    /\ floodLevel = 530
    /\ floodImpact.additionalAcres = 0
    /\ floodImpact.difference = 0 - 69

\* C11 (SpecFlood): impactedStructures is 0 for every difference <= 5 and
\* round((difference - 5) * 12) above 5; evacuationZone is 0 for every
\* difference <= 8 and round((difference - 8) * 0.5) above 8; at 604 ft the
\* difference is 5, with 900 acres, 0 structures and 0 evacuation.
C11_StrictThresholds ==
    LET difference == floodLevel - 599
    IN /\ floodImpact.difference = difference
       /\ floodImpact.impactedStructures =
             IF difference <= 5 THEN 0 ELSE (difference - 5) * 12
       /\ floodImpact.evacuationZone =
             IF difference <= 8 THEN 0 ELSE (difference - 8 + 1) \div 2
       /\ (floodLevel = 604) =>
             /\ floodImpact.additionalAcres = 900
             /\ floodImpact.impactedStructures = 0
             /\ floodImpact.evacuationZone = 0

\* C11 witness: the slider exactly at the 5 ft threshold.
C11_Witness ==
    /\ floodLevel = 604
    /\ floodImpact.difference = 5
    /\ floodImpact.additionalAcres = 900
    /\ floodImpact.impactedStructures = 0

\* C12 as claimed (SpecFlood): at 610 ft the difference is 11, with 1980
\* acres, 72 structures and an evacuation zone of 1 square mile.
C12_At610EvacuationOne ==
    (floodLevel = 610) =>
        /\ floodImpact.difference = 11
        /\ floodImpact.additionalAcres = 1980
        /\ floodImpact.impactedStructures = 72
        /\ floodImpact.evacuationZone = 1

\* C12 as amended (SpecFlood): at 610 ft the difference is 11, with 1980
\* acres, 72 structures and an evacuation zone of 2 square miles
\* (Math.round(1.5) is 2).
C12_At610EvacuationTwo ==
    (floodLevel = 610) =>
        /\ floodImpact.difference = 11
        /\ floodImpact.additionalAcres = 1980
        /\ floodImpact.impactedStructures = 72
        /\ floodImpact.evacuationZone = 2

\* C12 witness: the slider at 610 ft.
C12_Witness ==
    /\ floodLevel = 610
    /\ floodImpact.impactedStructures = 72
    /\ floodImpact.evacuationZone = 2

\* the band of a status: which of the four returns it is
RampBand(r) ==
    IF r.status = "open" /\ r.launchable[1] = "All vessels" THEN "optimal"
    ELSE IF r.status = "open" /\ r.launchable[1] = "Most boats" THEN "good"
    ELSE IF r.status = "limited" /\ r.launchable[1] = "Small boats" THEN "limited"
    ELSE IF r.status = "closed" /\ r.launchable = <<>> THEN "closed"
    ELSE "none"

\* C13 (SpecRamp): for every ramp and elevation getRampStatus returns the
\* band of the first test met, in the order optimal, minimum + 3 ft,
\* minimum, else closed; for the ramp with minimum 590 and optimal 595,
\* 596 ft is open for all vessels, 592 ft limited and 588 ft closed.
C13_FourBands ==
    /\ \A i \in DOMAIN BOAT_RAMPS :
          RampBand(rampStatuses[i]) =
             IF currentElevation >= BOAT_RAMPS[i].optimalElevation THEN "optimal"
             ELSE IF currentElevation >= BOAT_RAMPS[i].minElevation + 30 THEN "good"
             ELSE IF currentElevation >= BOAT_RAMPS[i].minElevation THEN "limited"
             ELSE "closed"
    /\ (currentElevation = 5960) => RampBand(rampStatuses[1]) = "optimal"
    /\ (currentElevation = 5920) => RampBand(rampStatuses[1]) = "limited"
    /\ (currentElevation = 5880) => RampBand(rampStatuses[1]) = "closed"

\* C13 witness: at 592 ft the ramp with minimum 590 and optimal 595 is
\* limited to small craft, while others are open or closed.
C13_Witness ==
    /\ currentElevation = 5920
    /\ rampStatuses[1].status = "limited"
    /\ rampStatuses[1].launchable = <<"Small boats", "Kayaks", "Canoes", "PWC">>
    /\ rampStatuses[3].status = "open"
    /\ rampStatuses[5].status = "closed"

\* C14 (SpecDay): the score is 100 plus one adjustment of each of the four
\* categories, not clamped, and the rating is its bucket: >= 80 Excellent,
\* >= 60 Good, >= 40 Fair, else Poor; (78, 10, 8, 1) scores 115, Excellent.
C14_SumThenBucket ==
    LET t == TemperatureAdjustment(day.tempHigh)
        p == PrecipitationAdjustment(day.precipProbability)
        w == WindAdjustment(day.windSpeed)
        c == WeatherCodeAdjustment(day.weatherCode)
    IN /\ t \in {0 - 30, 0 - 15, 0, 10}
       /\ p \in {0 - 40, 0 - 20, 0 - 10, 0}
       /\ w \in {0 - 25, 0 - 10, 0}
       /\ c \in {0 - 30, 0 - 20, 0, 5}
       /\ dayScore = 100 + t + p + w + c
       /\ dayRating = IF dayScore >= 80 THEN "Excellent"
                      ELSE IF dayScore >= 60 THEN "Good"
                      ELSE IF dayScore >= 40 THEN "Fair"
                      ELSE "Poor"
       /\ (day = [tempHigh |-> 78, precipProbability |-> 10, windSpeed |-> 8,
                  weatherCode |-> 1])
             => (dayScore = 115 /\ dayRating = "Excellent")

\* C14 witness: a day whose four penalties take the score below zero.
C14_Witness ==
    /\ day = [tempHigh |-> 100, precipProbability |-> 71, windSpeed |-> 26,
              weatherCode |-> 95]
    /\ dayScore = 0 - 25
    /\ dayRating = "Poor"

\* C15 (SpecDay): a precipitation probability of exactly 70, 40, 20 is
\* penalized by 40, 20, 10, and a wind speed of exactly 25, 15 mph by 25, 10.
C15_PenaltyAtThreshold ==
    LET base == 100 + TemperatureAdjustment(day.tempHigh)
                    + WeatherCodeAdjustment(day.weatherCode)
        precip == IF day.precipProbability >= 70 THEN 40
                  ELSE IF day.precipProbability >= 40 THEN 20
                  ELSE IF day.precipProbability >= 20 THEN 10
                  ELSE 0
        wind == IF day.windSpeed >= 25 THEN 25
                ELSE IF day.windSpeed >= 15 THEN 10
                ELSE 0
    IN (day.precipProbability \in {20, 40, 70} \/ day.windSpeed \in {15, 25})
          => dayScore = base - precip - wind

\* the number of TRUE entries of a sequence of booleans
RECURSIVE CountTrue(_)
CountTrue(bs) ==
    IF bs = <<>> THEN 0
    ELSE (IF bs[1] THEN 1 ELSE 0) + CountTrue(SubSeq(bs, 2, Len(bs)))

\* the entry of `values` at the only TRUE entry of `bands`
Banded(bands, values) ==
    values[CHOOSE i \in DOMAIN bands : bands[i]]

\* C16 (SpecFishCalc): each of the five factors falls in exactly one band
\* of its table and scores that band's value, overallScore is the rounded
\* mean of the five scores, and rating is its bucket: >= 80 Excellent,
\* >= 65 Good, >= 50 Fair, else Poor.
C16_FactorsMeanBucket ==
    LET p == fInput.current.pressure_msl * 2953
        t == fInput.waterTemp
        w == fInput.current.wind_speed_10m
        c == fInput.current.cloud_cover
        m == fConditions.factors[4].score
        pBands == <<p >= 3000000 /\ p <= 3020000, p >= 2980000 /\ p < 3000000,
                    p > 3020000 /\ p <= 3050000, p < 2980000, p > 3050000>>
        tBands == <<t >= 65 /\ t <= 75, t >= 55 /\ t < 65, t > 75 /\ t <= 85,
                    t < 55, t > 85>>
        wBands == <<w >= 5 /\ w <= 15, w < 5, w > 15 /\ w <= 25, w > 25>>
        cBands == <<c >= 40 /\ c <= 70, c > 70, c < 40>>
        sum == fConditions.factors[1].score + fConditions.factors[2].score
                 + fConditions.factors[3].score + m
                 + fConditions.factors[5].score
    IN /\ Len(fConditions.factors) = 5
       /\ CountTrue(pBands) = 1 /\ CountTrue(tBands) = 1
       /\ CountTrue(wBands) = 1 /\ CountTrue(cBands) = 1
       /\ fConditions.factors[1].score = Banded(pBands, <<90, 75, 60, 40, 50>>)
       /\ fConditions.factors[2].score = Banded(tBands, <<95, 70, 65, 40, 35>>)
       /\ fConditions.factors[3].score = Banded(wBands, <<85, 60, 55, 30>>)
       /\ m \in {90, 70, 55}
       /\ fConditions.factors[5].score = Banded(cBands, <<85, 70, 55>>)
       /\ 2 * (5 * fConditions.overallScore - sum) \in (0 - 4)..5
       /\ fConditions.rating =
             IF fConditions.overallScore >= 80 THEN "Excellent"
             ELSE IF fConditions.overallScore >= 65 THEN "Good"
             ELSE IF fConditions.overallScore >= 50 THEN "Fair"
             ELSE "Poor"

\* C16 witness: conditions whose mean of 61 lies between two thresholds.
C16_Witness ==
    /\ fConditions.overallScore \in 60..64
    /\ fConditions.rating = "Fair"
    /\ fConditions.factors[1].score = 50
    /\ fConditions.factors[4].score = 90

\* C17 (SpecFishCalc): two computations that agree on water temperature and
\* cloud cover give every species the same activity level, however wind,
\* pressure and moon phase differ.
C17_SpeciesIndependentOfScore ==
    [][(fInput'.waterTemp = fInput.waterTemp
          /\ fInput'.current.cloud_cover = fInput.current.cloud_cover)
        => fConditions'.targetSpecies = fConditions.targetSpecies]_vars

\* the tips whose condition holds, in the order wind, water temperature,
\* pressure, moon phase, cloud cover
MatchingTips ==
    LET p == fInput.current.pressure_msl * 2953
        t == fInput.waterTemp
        w == fInput.current.wind_speed_10m
        c == fInput.current.cloud_cover
        moon == getMoonPhase(fInput.date).phase
    IN (IF w >= 5 /\ w <= 15
          THEN <<"Fish the windward shoreline where baitfish concentrate">>
          ELSE <<>>)
       \o (IF t >= 65 /\ t <= 75
             THEN <<"Topwater lures effective in early morning">> ELSE <<>>)
       \o (IF p >= 2980000 /\ p <= 3000000
             THEN <<"Falling pressure - fish feeding aggressively">>
             ELSE <<>>)
       \o (IF moon \in {"Full Moon", "New Moon"}
             THEN <<"Major solunar period - extended feeding windows">>
             ELSE <<>>)
       \o (IF c >= 50
             THEN <<"Overcast conditions favor shallow water fishing">>
             ELSE <<>>)

\* C18 as claimed (SpecFishCalc): the tips list of the computed conditions
\* holds at most 3 tips, the first 3 that match, the single default tip when
\* none matches, and is never empty.
C18_TipsListCapped ==
    /\ Len(fConditions.tips) \in 1..3
    /\ fConditions.tips =
          IF MatchingTips = <<>>
            THEN <<"Fish structure and cover in deeper water">>
            ELSE SubSeq(MatchingTips, 1, Min(3, Len(MatchingTips)))

\* C18 as amended (SpecFishCalc): the tips list of the computed conditions
\* holds every matching tip, 1 to 5 of them, in the fixed order, and exactly
\* the single default tip when none matches; the cap is applied on render,
\* which shows the first 3 entries of the list; neither is ever empty.
C18_TipsCappedOnRender ==
    /\ Len(fConditions.tips) \in 1..5
    /\ fConditions.tips =
          IF MatchingTips = <<>>
            THEN <<"Fish structure and cover in deeper water">>
            ELSE MatchingTips
    /\ Len(RenderedTips(fConditions)) \in 1..3
    /\ RenderedTips(fConditions) =
          IF MatchingTips = <<>>
            THEN <<"Fish structure and cover in deeper water">>
            ELSE SubSeq(MatchingTips, 1, Min(3, Len(MatchingTips)))

\* C18 witness: all five conditions match; five tips stored, three rendered.
C18_Witness ==
    /\ Len(fConditions.tips) = 5
    /\ Len(RenderedTips(fConditions)) = 3
    /\ RenderedTips(fConditions)[3] =
          "Falling pressure - fish feeding aggressively"

\* the hour of day that an hour label names: 12am is midnight, 12pm noon
LabelHour(label) ==
    IF label[2] = "am" THEN (IF label[1] = 12 THEN 0 ELSE label[1])
    ELSE (IF label[1] = 12 THEN 12 ELSE label[1] + 12)

\* the window "<start>-<end>" that starts at hour `start` and lasts 2 hours
TwoHoursFrom(period, start) ==
    /\ LabelHour(period[1]) = start % 24
    /\ LabelHour(period[2]) = (start + 2) % 24

\* C19 (SpecMoon): getSolunarPeriods returns two major and two minor
\* windows, each 2 hours long modulo 24; the first major window starts at
\* hour (6 + floor(illumination / 10)) mod 24, the second 12 hours later,
\* each minor window 6 hours after a major one; the date enters only
\* through the moon illumination.
C19_SolunarWindows ==
    ("getSolunarPeriods" \in mCalled) =>
        LET start == 6 + (getMoonPhase(mDate).illumination \div 10)
        IN /\ Len(mSolunar.major) = 2 /\ Len(mSolunar.minor) = 2
           /\ TwoHoursFrom(mSolunar.major[1], start)
           /\ TwoHoursFrom(mSolunar.major[2], start + 12)
           /\ TwoHoursFrom(mSolunar.minor[1], start + 6)
           /\ TwoHoursFrom(mSolunar.minor[2], start + 18)

\* two rings have endpoints within the tolerance of each other
EndpointsMatch(a, b) ==
    \E e \in {a[1], a[Len(a)]} : \E f \in {b[1], b[Len(b)]} : Near(e, f)

\* the rings reached from the rings `from` by chains of endpoint matches
RECURSIVE ReachedFrom(_, _)
ReachedFrom(from, steps) ==
    IF steps = 0 THEN from
    ELSE ReachedFrom(
           from \cup {j \in DOMAIN rings :
                        \E i \in from : EndpointsMatch(rings[i], rings[j])},
           steps - 1)

\* no ring left unmerged has an endpoint within the tolerance of an end of
\* the merged chain
NothingLeftToMerge ==
    \A k \in DOMAIN remaining :
        LET ring == rings[remaining[k]]
        IN \A e \in {ring[1], ring[Len(ring)]} :
              ~Near(e, merged[1]) /\ ~Near(e, merged[Len(merged)])

\* C20 as claimed (SpecRings): when the loop exits nothing is left to merge
\* at either end of the chain, and every ring reachable from the first
\* ring through a chain of endpoint matches is part of the output.
C20_ReachableRingsMerged ==
    (mergePc = "done" /\ Len(rings) >= 2) =>
        /\ NothingLeftToMerge
        /\ \A j \in ReachedFrom({1}, Len(rings)) : j \notin Range(remaining)

\* C20 as amended (SpecRings): when the loop exits, no ring left unmerged
\* has an endpoint within the tolerance of either end of the merged chain,
\* and the output is that chain, closed; a ring that matches only a point
\* that has become interior to the chain (three ring ends meeting at one
\* place) stays unmerged although it is reachable from the first ring.
C20_NothingLeftAtChainEnds ==
    (mergePc = "done" /\ Len(rings) >= 2) =>
        /\ NothingLeftToMerge
        /\ Len(merged) = 2 + (Len(rings) - 1 - Len(remaining))
        /\ mergeResult \in {merged, Append(merged, merged[1])}
        /\ mergeResult[1] = mergeResult[Len(mergeResult)]

\* C20 witness: three rings whose ends meet at one place; two are stitched
\* and the third, which matches the first ring's end, is left out.
C20_Witness ==
    /\ mergePc = "done"
    /\ Len(rings) = 3
    /\ Len(remaining) = 1
    /\ Len(merged) = 3
    /\ EndpointsMatch(rings[1], rings[remaining[1]])
    /\ NothingLeftToMerge

\* C29 (SpecRoute): a 200 response has fallback true exactly when an
\* alternate site answered it; then siteId is the first alternate, in the
\* order 07335790, 07335500, 07336200, whose request returned OK; and no
\* alternate is requested when the primary request returns OK.
C29_FallbackFlag ==
    LET n == Len(rRequested)
    IN /\ (rAnswered # <<>> /\ rAnswered[1] = "ok") => n = 1
       /\ \A i \in 2..n : rRequested[i] = <<"07335790", "07335500", "07336200">>[i - 1]
       /\ (rResponse.status = 200) =>
             /\ Len(rAnswered) = n
             /\ rAnswered[n] = "ok"
             /\ \A i \in 1..(n - 1) : rAnswered[i] = "notOk"
             /\ rResponse.fallback = (n > 1)
             /\ rResponse.siteId = rRequested[n]

\* C29 witness: the primary and two alternates were not OK, and the third
\* alternate answered.
C29_Witness ==
    /\ rResponse.status = 200
    /\ rResponse.fallback
    /\ rResponse.siteId = "07336200"
    /\ rAnswered = <<"notOk", "notOk", "notOk", "ok">>

\* the 12-hour clock label of hour h: 0 is 12am, 12 is 12pm
ClockLabel(h) ==
    IF h = 0 THEN <<12, "am">>
    ELSE IF h < 12 THEN <<h, "am">>
    ELSE IF h = 12 THEN <<12, "pm">>
    ELSE <<h - 12, "pm">>

\* C30 (SpecMoon): every start and end hour of the windows returned by
\* getSolunarPeriods carries its 12-hour clock label (0 is 12am, 1..11 am,
\* 12 is 12pm, 13..23 pm), so different hours never share a label.
C30_ClockLabels ==
    ("getSolunarPeriods" \in mCalled) =>
        LET start == 6 + (getMoonPhase(mDate).illumination \div 10)
            Labelled(period, h) ==
                /\ period[1] = ClockLabel(h % 24)
                /\ period[2] = ClockLabel((h + 2) % 24)
        IN /\ Labelled(mSolunar.major[1], start)
           /\ Labelled(mSolunar.major[2], start + 12)
           /\ Labelled(mSolunar.minor[1], start + 6)
           /\ Labelled(mSolunar.minor[2], start + 18)
           /\ mSolunar.minor[1][1] # mSolunar.minor[2][1]

\* C22 (SpecWidgets): a successful fetch of WeatherWidget leaves in
\* hourlyForecast the 12 consecutive hours that start at the current hour,
\* whatever the hour of day is.
C22_TwelveHours ==
    [][(mounted = "weather" /\ Settled /\ Last(done')[2] = "ok")
        => (/\ Len(hourlyForecast') = 12
            /\ \A k \in 1..12 :
                  hourlyForecast'[k] = hourlyForecast'[1] + (k - 1))]_vars

\* C25 (SpecWidgets): in USGSWaterData, WeatherWidget and
\* FishActivityIndex, loading is true in every state in which a fetch of
\* the widget is in flight.
C25_LoadingWhileInFlight ==
    (mounted \in {"usgs", "usgsSim", "weather", "fish"} /\ inflight # {})
        => loading

\* C26 (SpecWidgets): in the proxy-backed USGSWaterData, when no fetch is
\* in flight, waterData and error are not both non-null.
C26_DataOrError ==
    (mounted = "usgs" /\ inflight = {})
        => ~(waterData # NULL /\ error # NoError)

\* C27 (SpecWidgets): whenever conditions of FishActivityIndex is non-null,
\* computed or default, overallScore is an integer in 0..100 and rating is
\* its bucket: >= 80 Excellent, >= 65 Good, >= 50 Fair, else Poor.
C27_ScoreAndRating ==
    (mounted = "fish" /\ conditions # NULL) =>
        /\ conditions.overallScore \in 0..100
        /\ conditions.rating =
              IF conditions.overallScore >= 80 THEN "Excellent"
              ELSE IF conditions.overallScore >= 65 THEN "Good"
              ELSE IF conditions.overallScore >= 50 THEN "Fair"
              ELSE "Poor"

\* C27 witness: the default record replaced computed conditions that were
\* rated from a body with an empty `current` block.
C27_Witness ==
    /\ mounted = "fish"
    /\ Len(done) = 2
    /\ done[1][2] = "emptyCurrent"
    /\ done[2][2] \in FishFailures
    /\ conditions # NULL
    /\ conditions.overallScore = 60
    /\ conditions.rating = "Fair"

\* C28 (SpecWidgets): after a successful fetch of WaterLevelChart,
\* stats.current is the last reading of the series USGS returned and
\* stats.change is that reading minus the first one, for every series
\* length and sampling rate.
C28_CurrentIsLatestReading ==
    [][(mounted = "chart" /\ Settled /\ Last(done')[2] = "ok")
        => (/\ stats'.current = series'[Len(series')]
            /\ stats'.change = series'[Len(series')] - series'[1])]_vars

\* the rings still to merge are rings of the input other than the first,
\* each of them once
RemainingDistinct ==
    /\ \A k \in DOMAIN remaining : remaining[k] \in 2..Len(rings)
    /\ \A j, k \in DOMAIN remaining : j # k => remaining[j] # remaining[k]

\* C24 (SpecRingsLive): mergeRings terminates for every list of non-empty
\* rings; a pass of the while loop that does not end the loop removes
\* exactly one ring from `remaining`, whose rings are distinct rings of the
\* input, so at most Len(rings) - 1 merges happen and no ring is merged twice.
C24_MergeTerminates ==
    /\ <>(mergePc = "done")
    /\ [](RemainingDistinct /\ Len(remaining) <= Max(0, Len(rings) - 1))
    /\ [][(mergePc = "loop" /\ mergePc' = "loop")
            => (/\ Len(remaining') = Len(remaining) - 1
                /\ Range(remaining') \subseteq Range(remaining))]_vars

C24_Witness ==
    mergePc = "done" /\ Len(rings) = MaxRings /\ remaining = <<>>

\* the answer is the hard-coded approximate polygon
IsFallback(response) ==
    /\ Len(response.features) = 1
    /\ response.features[1].source = "approximate"
    /\ response.features[1].ring = ApproximateBoundary
    /\ response.meta.source = "fallback"

\* the answer carries OSM features only
OnlyOsm(response) ==
    /\ Len(response.features) >= 1
    /\ \A k \in DOMAIN response.features :
          response.features[k].source = "OpenStreetMap"
    /\ response.meta.source = "OpenStreetMap"
    /\ response.meta.count = Len(response.features)

WayWithGeometry(element) ==
    element.type = "way" /\ element.geometry # Absent

RelationWithOuterWay(element) ==
    /\ element.type = "relation"
    /\ \E k \in DOMAIN element.members :
          element.members[k].type = "way" /\ element.members[k].role = "outer"

RelationWithOuterGeometry(element) ==
    /\ element.type = "relation"
    /\ \E k \in DOMAIN element.members :
          /\ element.members[k].type = "way"
          /\ element.members[k].role = "outer"
          /\ element.members[k].geometry # Absent

Answered == bPc = "done" /\ bResponse.status = 200

\* C21 as stated (SpecBoundary): a 200 answer is the approximate polygon
\* exactly when the elements hold no way with geometry and no relation with
\* an outer member way; otherwise it carries OSM features only.
C21_FallbackIffNoOuterWay ==
    Answered =>
        IF \E k \in DOMAIN bElements :
              WayWithGeometry(bElements[k]) \/ RelationWithOuterWay(bElements[k])
        THEN OnlyOsm(bResponse) /\ ~IsFallback(bResponse)
        ELSE IsFallback(bResponse)

\* C21 amended (SpecBoundary): a 200 answer is the approximate polygon
\* exactly when the elements hold no way with geometry and no relation with
\* an outer member way that carries geometry; otherwise it carries OSM
\* features only, one for each such element.
C21_FallbackIffNoFeature ==
    Answered =>
        LET yielding == {k \in DOMAIN bElements :
                            \/ WayWithGeometry(bElements[k])
                            \/ RelationWithOuterGeometry(bElements[k])}
        IN IF yielding # {}
           THEN /\ OnlyOsm(bResponse) /\ ~IsFallback(bResponse)
                /\ Len(bResponse.features) = Cardinality(yielding)
           ELSE IsFallback(bResponse)

C21_Witness ==
    /\ Answered
    /\ IsFallback(bResponse)
    /\ \E k \in DOMAIN bElements : RelationWithOuterWay(bElements[k])

\* C23 (SpecBoundary): every ring of an OSM feature in a 200 answer is
\* closed: it is not empty and its first coordinate equals its last.
C23_EmittedRingsClosed ==
    (Answered /\ bResponse.meta.source = "OpenStreetMap") =>
        \A k \in DOMAIN bResponse.features :
            LET ring == bResponse.features[k].ring
            IN ring # <<>> /\ ring[1] = ring[Len(ring)]

====
